---- MODULE Spec2Model ----
(***************************************************************************)
(* A model of the proxmox-backup storage engine: the datastore with its    *)
(* chunk store and garbage collector (src/backup/datastore.rs), the sync   *)
(* engine (src/client/pull.rs), the client upload pipeline                 *)
(* (src/client/backup_writer.rs), the password API (src/api2/access.rs),  *)
(* the parameter parser (src/api/schema.rs) and the server state           *)
(* (src/server/state.rs).                                                  *)
(*                                                                         *)
(* Each part is a specification of its own over its own variables:         *)
(*   Spec        the datastore: writers, snapshots, garbage collection     *)
(*   SpecInsert  concurrent insert_chunk calls on the chunk store          *)
(*   SpecPull    pull_store runs from a fixed remote into the target       *)
(*   SpecUpload  one archive upload of a BackupWriter                      *)
(*   SpecUploadFair  the same with its tasks scheduled fairly              *)
(*   SpecWriter  a BackupWriter and its session from start to the end      *)
(*   SpecAccess  change_password calls                                     *)
(*   SpecParse   one parse_parameter_strings call                          *)
(*   SpecSnapshot  one pull_snapshot call of the sync engine               *)
(*   SpecShutdown  the datastore while a shutdown may be requested         *)
(*   SpecServer  the server state (src/server/state.rs)                    *)
(*   SpecServerFair  the same, a server_shutdown call running to its end   *)
(*   SpecSnapShutdown  pull_snapshot while a shutdown may be requested     *)
(*   SpecLookup  lookup_datastore calls while the configuration changes    *)
(*   SpecFrom    pull_snapshot_from calls for one snapshot                 *)
(*   SpecTmp     the tmp file of a pulled file, byte by byte               *)
(***************************************************************************)
EXTENDS Integers, Sequences, FiniteSets, TLC

(***************************************************************************)
(* Bounds of the model.                                                    *)
(***************************************************************************)
MaxTime == 2          \* the clock runs 0..MaxTime
NDigests == 2         \* digests 1..NDigests
NSnaps == 2           \* snapshot directories 1..NSnaps
NWriters == 1         \* index writers 1..NWriters
NSync == 2            \* sync operations 1..NSync
NGc == 2              \* concurrent callers of garbage_collection
NIns == 2             \* concurrent callers of insert_chunk
MaxIndexLen == 1      \* entries of one index file
NGroups == 2          \* backup groups 1..NGroups
MaxBackupTime == 2    \* backup_time of a snapshot, 1..MaxBackupTime
MaxStreamLen == 3     \* chunks of the input stream of an upload
ChannelCap == 1       \* capacity of the upload queue (64 in the program)
MergeMax == 2         \* entries of a merged Known list (64 in the program)
NPasswords == 2       \* passwords 1..NPasswords, 0 is the initial one
NArchives == 2        \* archives of a backup session 1..NArchives
MaxRefs == 2          \* Arc<BackupWriter> references alive at once
MaxParams == 2        \* (key, value) pairs of a query
NUpDigests == 3       \* digests of the chunks of an upload 1..NUpDigests
PullIndexLen == 2     \* entries of a remote index file
NFutures == 2         \* futures handed out by the server state
MaxWorkers == 2       \* worker_count 0..MaxWorkers
NLookups == 2         \* concurrent lookup_datastore calls
NPaths == 2           \* paths the configuration can name
MaxOpens == 3         \* DataStore instances opened
NPullers == 2         \* concurrent pull_snapshot_from calls
MaxFileLen == 3       \* bytes of a file
NBytes == 2           \* values of a byte

\* The age under which sweep never removes a chunk, in clock ticks
\* (24 h + margin in the program).
CHUNK_MAX_AGE == 1

Digests == 1..NDigests
Groups == 1..NGroups
BackupTimes == 1..MaxBackupTime
Passwords == 0..NPasswords
Archives == 1..NArchives
Futures == 1..NFutures
Lookups == 1..NLookups
Paths == 1..NPaths
Pullers == 1..NPullers
UpDigests == 1..NUpDigests
ParamKeys == {"force", "name"}
ParamValues == {"1", "off", "abc", ""}
Users == {"root@pam", "user1@pbs", "user2@pbs"}
Snaps == 1..NSnaps
Writers == 1..NWriters
Syncs == 1..NSync
GcCallers == 1..NGc
Inserters == 1..NIns
Times == 0..MaxTime

Range(f) == {f[i] : i \in DOMAIN f}

Min(S) == CHOOSE x \in S : \A y \in S : x <= y

VARIABLES
    now,            \* the clock
    chunks,         \* .chunks/: digest -> [present, atime, ctime, data]
    snapshots,      \* the snapshot directories that hold an index file
    index,          \* snapshot -> the digests of its index file, in order
    wstate,         \* writer -> "idle" | "open"
    slock,          \* sync -> it holds the shared chunk-store lock
    wrec,           \* writer -> ctime of its writer record, NoRec if none
    windex,         \* writer -> digests appended to the index it builds
    wnew,           \* writer -> digests whose chunk file it created
    gc_mutex,       \* DataStore.gc_mutex: the caller holding it, 0 if free
    exclusive,      \* the GC caller holding the exclusive lock, 0 if free
    gcpc,           \* caller -> "idle" | "mark" | "sweep" | "done" | "failed"
    gcerr,          \* caller -> the error its last call returned
    gc_oldest,      \* the running GC: oldest_writer as sampled
    gc_start,       \* the running GC: the time it started
    gc_list,        \* the running GC: image_list still to mark
    gc_cur,         \* the running GC: digests still to touch in the opened index
    gc_conc,        \* the running GC: a writer or sync was active during the run
    gc_removed,     \* the digests the last sweep removed
    last_gc_status, \* DataStore.last_gc_status: the caller that set it, 0 default
    ipc,            \* insert_chunk call -> "idle" | "tmp" | "done"
    idig,           \* insert_chunk call -> its digest
    itmp,           \* insert_chunk call -> content of its temp file
    iexisted,       \* insert_chunk call -> the "existed" it returned
    iover,          \* two calls for one digest had their temp files at once
    r_groups,       \* the remote: its groups
    r_snaps,        \* the remote: group -> backup_times of its snapshots
    owner,          \* target: group -> "none" (no directory) | "me" | "other"
    t_snaps,        \* target: group -> backup_time -> state of the directory
    pl_pc,          \* pull_store: "idle" | "groups" | "snaps" | "delsnaps"
                    \*             | "delgroups" | "done"
    delete,         \* pull_store: its delete argument
    errors,         \* pull_store: its errors flag
    new_groups,     \* pull_store: groups of the remote list
    pl_list,        \* pull_store: groups still to process
    pl_group,       \* pull_group: its group, 0 outside pull_group
    pl_slist,       \* pull_group: remote snapshots still to process
    last_sync,      \* pull_group: last_successful_backup, 0 for None
    remote_snapshots, \* pull_group: backup_times of the remote list so far
    pl_dlist,       \* pull_group: local snapshots still to examine
    pl_inserted,    \* this run: insert_chunk calls
    pl_downloaded,  \* this run: archives downloaded
    pl_removed,     \* this run: <<group, time>> removed by the deletion step
    pl_removed_groups, \* this run: groups removed by the deletion step
    pl_result,      \* result of the last completed run, "none" before
    pl_requested,   \* this run: a request was sent to the remote
    pl_outcome,     \* this run: group -> "none" | "create" | "owner" | "pull"
                    \*                    | "ok", how its turn in the loop ended
    pl_changed,     \* this run: groups with a snapshot created or removed
    up_pc,          \* upload_stream: "idle" | "listed" | "stream" | "closed"
                    \*                | "failed"
    up_input,       \* the input stream: the digests of its chunks, in order
    up_prev,        \* digests of the previous snapshot's index of the archive
    known_chunks,   \* the known-chunks set of the upload
    up_pos,         \* chunks taken from the input stream
    stream_len,     \* bytes taken from the input stream
    up_posted,      \* digests POSTed to {prefix}_chunk, in order
    up_index,       \* <<offset, digest>> registered by PUT {prefix}_index
    up_closes,      \* POST {prefix}_close requests sent
    up_fixed,       \* upload_stream: prefix == "fixed"
    up_csum,        \* index_csum: the bytes fed to the SHA-256 so far
    up_repeat,      \* repeat: chunks counted by the stream
    up_close_param, \* the parameters of the POST {prefix}_close
    up_requests,    \* the requests upload_stream has sent, in order
    up_error,       \* the call whose error upload_stream returned, or ""
    up_post_off,    \* offsets of the chunks POSTed to {prefix}_chunk, in order
    up_buf,         \* main task: the list of Known items not yet passed on
    up_new,         \* main task: the new chunk waiting behind that list
    up_pend,        \* main task: the item it is sending into the channel
    up_chan,        \* the channel of the upload queue
    up_tx,          \* the sender of the channel is alive
    up_res,         \* main task: result of its stream, "none" while it runs
    cq_st,          \* append_chunk_queue task: "run" | "wait" | "put"
                    \*                          | "done" | "err"
    cq_buf,         \* append_chunk_queue task: its list of Known items
    cq_item,        \* append_chunk_queue task: the item taken from the
                    \* channel whose response it awaits
    up_acked,       \* offsets of the chunk uploads answered with success
    up_put_acked,   \* PUT {prefix}_index requests answered with success
    up_puts,        \* PUT {prefix}_index requests sent
    up_failed,      \* a pipelined request has failed
    passwords,      \* user -> the stored password
    privs,          \* the users holding PRIV_PERMISSIONS_MODIFY
    cp,             \* the last change_password call and its result
    bw_started,     \* BackupWriter::start has returned the writer
    bw_refs,        \* the Arc<BackupWriter> references alive
    bw_aborted,     \* abort.abort() was called: the H2 session is aborted
    bw_abort_src,   \* what called it first: "drop" | "cancel" | "finish"
    bw_fin,         \* finish: "none" | "sent" | "acked" | "error" | "ok"
                    \*         | "failed"
    bw_lost,        \* archives not closed, or not finished, at the abort
    srv_session,    \* server: "none" | "open" | "finished" | "aborted"
    srv_arch,       \* server: archive -> "none" | "open" | "closed"
                    \*                    | "published" | "discarded"
    pq_pc,          \* parse_parameter_strings: "idle" | "loop" | "done"
    pq_data,        \* its data: the (key, value) pairs
    pq_schema,      \* its schema: key -> the property defined for it
    pq_schema_additional, \* its schema: additional_properties
    pq_test_required, \* its test_required
    pq_pos,         \* pairs of data handled
    pq_params,      \* its params: key -> JSON value
    pq_errors,      \* its errors
    pq_result,      \* "none" | "ok" | "err"
    ps_pc,          \* pull_snapshot: the step it is at
    ps_remote,      \* the remote manifest: archive -> the data of the file
    ps_manifest,    \* the local manifest: "none" | "old" | "new"
    ps_before,      \* the local manifest when pull_snapshot was called
    ps_tmp_manifest, \* the downloaded manifest exists under its tmp name
    ps_present,     \* the archives that exist under their final name
    ps_file,        \* archive -> the data of the file under its final name
    ps_tmp,         \* the archive pulled exists under its tmp name
    ps_store,       \* the digests present in the target chunk store
    ps_pos,         \* the item of manifest.files() at hand
    ps_cpos,        \* pull_index_chunks: the position in the index
    ps_fetched,     \* the digests read from the remote, in order
    ps_attempts,    \* the reads tried for the chunk at hand
    ps_result,      \* "none" | "ok" | "unchanged" | "err"
    ps_err,         \* the step whose error pull_snapshot returned, or ""
    ps_dir,         \* the other files of the snapshot directory
    shutdown_requested,  \* tools: request_shutdown has been called
    mode,           \* ServerState.mode: "Normal" | "Shutdown"
    worker_count,   \* ServerState.worker_count
    shutdown_listeners,     \* BroadcastData [result, listeners]
    last_worker_listeners,  \* BroadcastData [result, listeners]
    st_pc,          \* server_shutdown: "idle" | "check" (lock dropped)
    st_futures,     \* future -> "none" | "shutdown" | "last_worker"
    st_resolved,    \* the futures that have resolved
    st_notified,    \* mode and worker_count at the notifications of the
                    \* last-worker listeners
    ld_config,      \* datastore.cfg: the path of the datastore
    ld_map,         \* DATASTORE_MAP: the instance cached for the name, or 0
    ld_paths,       \* instance -> chunk_store.base of the DataStore
    ld_pc,          \* lookup_datastore call -> "idle" | "lock" | "done"
    ld_path,        \* lookup_datastore call -> the path it read
    ld_ret,         \* lookup_datastore call -> the instance it returned
    sf_group,       \* the group directory of the snapshot exists
    sf_dir,         \* the snapshot directory: "absent" | "old" | "empty" |
                    \* "partial" | "synced"
    sf_pc,          \* pull_snapshot_from call -> "idle" | "mkdir" | "pull" |
                    \* "cleanup" | "done"
    sf_new,         \* pull_snapshot_from call -> is_new of create_backup_dir
    sf_path,        \* pull_snapshot_from call -> the relative path it got
    sf_err,         \* pull_snapshot_from call -> the error it returned
    sf_logged,      \* pull_snapshot_from call -> it logged a cleanup error
    sf_news,        \* calls that got is_new = true for the directory there is
    sf_pre,         \* the directory was there before every call
    tf_remote,      \* the bytes of the remote file
    tf_tmp,         \* the file under the tmp name: [exists, data]
    tf_file,        \* the file under the final name: [exists, data]
    tf_pc           \* the download: "start" | "written" | "done" | "failed"

gcVars == <<now, chunks, snapshots, index, wstate, slock, wrec, windex, wnew,
            gc_mutex, exclusive, gcpc, gcerr, gc_oldest, gc_start, gc_list,
            gc_cur, gc_conc, gc_removed, last_gc_status>>

insVars == <<ipc, idig, itmp, iexisted, iover>>

pullVars == <<r_groups, r_snaps, owner, t_snaps, pl_pc, delete, errors,
              new_groups, pl_list, pl_group, pl_slist, last_sync,
              remote_snapshots, pl_dlist, pl_inserted, pl_downloaded,
              pl_removed, pl_removed_groups, pl_result, pl_requested,
              pl_outcome, pl_changed>>

upPipe == <<up_buf, up_new, up_pend, up_chan, up_tx, up_res, cq_st, cq_buf,
            cq_item, up_acked, up_put_acked, up_puts, up_failed>>

upSum == <<up_fixed, up_csum, up_repeat, up_close_param>>

upLog == <<up_requests, up_error>>

upVars == <<up_pc, up_input, up_prev, known_chunks, up_pos, stream_len,
            up_posted, up_index, up_closes, up_post_off, upPipe, upSum,
            upLog>>

accVars == <<passwords, privs, cp>>

bwVars == <<bw_started, bw_refs, bw_aborted, bw_abort_src, bw_fin, bw_lost,
            srv_session, srv_arch>>

pqVars == <<pq_pc, pq_data, pq_schema, pq_schema_additional,
            pq_test_required, pq_pos, pq_params, pq_errors, pq_result>>

psVars == <<ps_pc, ps_remote, ps_manifest, ps_before, ps_tmp_manifest,
            ps_present, ps_file, ps_tmp, ps_store, ps_pos, ps_cpos,
            ps_fetched, ps_attempts, ps_result, ps_err, ps_dir>>

stVars == <<shutdown_requested, mode, worker_count, shutdown_listeners,
            last_worker_listeners, st_pc, st_futures, st_resolved,
            st_notified>>

ldVars == <<ld_config, ld_map, ld_paths, ld_pc, ld_path, ld_ret>>

sfVars == <<sf_group, sf_dir, sf_pc, sf_new, sf_path, sf_err, sf_logged,
            sf_news, sf_pre>>

tfVars == <<tf_remote, tf_tmp, tf_file, tf_pc>>

miscVars == <<ldVars, sfVars, tfVars>>

vars == <<gcVars, insVars, pullVars, upVars, accVars, bwVars, pqVars,
          psVars, stVars, miscVars>>

NoRec == 0 - 1

NoChunk == [present |-> FALSE, atime |-> 0, ctime |-> 0, data |-> 0]

\* The blob of a digest: chunks are content addressed.
BlobOf(d) == d

-----------------------------------------------------------------------------
(***************************************************************************)
(* ChunkStore (§4.1).                                                      *)
(***************************************************************************)

\* insert_chunk: the file appears under its final name whole; an existing
\* file is left as it is.
insert_chunk(store, d, t) ==
    IF store[d].present
    THEN store
    ELSE [store EXCEPT ![d] = [present |-> TRUE, atime |-> t, ctime |-> t,
                               data |-> BlobOf(d)]]

\* touch_chunk: set atime to now (the caller has checked the file exists).
touch_chunk(store, d, t) == [store EXCEPT ![d].atime = t]

\* try_shared_lock succeeds unless the exclusive lock is held.
try_shared_lock_ok == exclusive = 0

\* try_exclusive_lock succeeds unless any lock is held.
try_exclusive_lock_ok == exclusive = 0 /\ \A p \in Syncs : ~slock[p]

\* oldest_writer: the ctime of the oldest writer record, now if there is none.
oldest_writer ==
    LET recs == {wrec[w] : w \in {x \in Writers : wrec[x] # NoRec}}
    IN IF recs = {} THEN now ELSE Min(recs)

\* sweep_unused_chunks: remove every file with atime < cutoff and
\* ctime < oldest_writer.
SweepRemoves(store, oldest, start) ==
    {d \in Digests : /\ store[d].present
                     /\ store[d].atime < start - CHUNK_MAX_AGE
                     /\ store[d].ctime < oldest}

sweep_unused_chunks(store, oldest, start) ==
    [d \in Digests |->
        IF d \in SweepRemoves(store, oldest, start) THEN NoChunk ELSE store[d]]

-----------------------------------------------------------------------------
(***************************************************************************)
(* Sessions: index writers and lock holders.                               *)
(***************************************************************************)

GcRunning(g) == gcpc[g] \in {"mark", "sweep"}

\* A garbage_collection call has returned and its caller has not yet taken
\* the result: the return is one step, nothing else happens meanwhile.
Returning == \E g \in GcCallers : gcpc[g] \in {"done", "failed"}

\* Every running GC has seen a writer from now on.
NoteWriter == gc_conc' = (gc_conc \/ \E g \in GcCallers : GcRunning(g))

Tick ==
    /\ ~Returning
    /\ now < MaxTime
    /\ now' = now + 1
    /\ UNCHANGED <<chunks, snapshots, index, wstate, slock, wrec, windex, wnew,
                   gc_mutex, exclusive, gcpc, gcerr, gc_oldest, gc_start,
                   gc_list, gc_cur, gc_conc, gc_removed, last_gc_status>>

\* create_fixed_writer / create_dynamic_writer: the index writer registers
\* its writer record.
create_writer(w) ==
    /\ ~Returning
    /\ wstate[w] = "idle"
    /\ wstate' = [wstate EXCEPT ![w] = "open"]
    /\ wrec' = [wrec EXCEPT ![w] = now]
    /\ NoteWriter
    /\ UNCHANGED <<now, chunks, snapshots, index, slock, windex, wnew,
                   gc_mutex, exclusive, gcpc, gcerr, gc_oldest, gc_start,
                   gc_list, gc_cur, gc_removed, last_gc_status>>

\* A writer inserts chunk d and appends it to the index it is building.
writer_insert_chunk(w, d) ==
    /\ ~Returning
    /\ wstate[w] = "open"
    /\ Len(windex[w]) < MaxIndexLen
    /\ chunks' = insert_chunk(chunks, d, now)
    /\ windex' = [windex EXCEPT ![w] = Append(@, d)]
    /\ wnew' = [wnew EXCEPT ![w] = IF chunks[d].present THEN @ ELSE @ \cup {d}]
    /\ UNCHANGED <<now, snapshots, index, wstate, slock, wrec,
                   gc_mutex, exclusive, gcpc, gcerr, gc_oldest, gc_start,
                   gc_list, gc_cur, gc_conc, gc_removed, last_gc_status>>

EndWriter(w) ==
    /\ wstate' = [wstate EXCEPT ![w] = "idle"]
    /\ wrec' = [wrec EXCEPT ![w] = NoRec]
    /\ windex' = [windex EXCEPT ![w] = <<>>]
    /\ wnew' = [wnew EXCEPT ![w] = {}]

\* The writer publishes its index file in a new snapshot directory and ends.
writer_close(w, s) ==
    /\ ~Returning
    /\ wstate[w] = "open"
    /\ s \notin snapshots
    /\ snapshots' = snapshots \cup {s}
    /\ index' = [index EXCEPT ![s] = windex[w]]
    /\ EndWriter(w)
    /\ UNCHANGED <<now, chunks, slock, gc_mutex, exclusive, gcpc, gcerr,
                   gc_oldest, gc_start, gc_list, gc_cur, gc_conc, gc_removed,
                   last_gc_status>>

\* The writer is dropped: its record goes, its chunks stay.
writer_abort(w) ==
    /\ ~Returning
    /\ wstate[w] = "open"
    /\ EndWriter(w)
    /\ UNCHANGED <<now, chunks, snapshots, index, slock, gc_mutex, exclusive,
                   gcpc, gcerr, gc_oldest, gc_start, gc_list, gc_cur, gc_conc,
                   gc_removed, last_gc_status>>

\* try_shared_chunk_store_lock, as pull_store calls it first: fails fast
\* while the exclusive lock is held.
try_shared_chunk_store_lock(p) ==
    /\ ~Returning
    /\ ~slock[p]
    /\ try_shared_lock_ok
    /\ slock' = [slock EXCEPT ![p] = TRUE]
    /\ NoteWriter
    /\ UNCHANGED <<now, chunks, snapshots, index, wstate, wrec, windex, wnew,
                   gc_mutex, exclusive, gcpc, gcerr, gc_oldest, gc_start,
                   gc_list, gc_cur, gc_removed, last_gc_status>>

\* pull_index_chunks, one digest, under the shared lock: cond_touch_chunk,
\* and insert_chunk if it is missing.
pull_index_chunk(p, d) ==
    /\ ~Returning
    /\ slock[p]
    /\ chunks' = IF chunks[d].present
                 THEN touch_chunk(chunks, d, now)
                 ELSE insert_chunk(chunks, d, now)
    /\ chunks' # chunks
    /\ UNCHANGED <<now, snapshots, index, wstate, slock, wrec, windex, wnew,
                   gc_mutex, exclusive, gcpc, gcerr, gc_oldest, gc_start,
                   gc_list, gc_cur, gc_conc, gc_removed, last_gc_status>>

\* pull_store returns: _shared_store_lock is dropped.
drop_shared_lock(p) ==
    /\ ~Returning
    /\ slock[p]
    /\ slock' = [slock EXCEPT ![p] = FALSE]
    /\ UNCHANGED <<now, chunks, snapshots, index, wstate, wrec, windex, wnew,
                   gc_mutex, exclusive, gcpc, gcerr, gc_oldest, gc_start,
                   gc_list, gc_cur, gc_conc, gc_removed, last_gc_status>>

\* remove_backup_dir: recursive unlink of a snapshot directory.
remove_backup_dir(s) ==
    /\ ~Returning
    /\ s \in snapshots
    /\ snapshots' = snapshots \ {s}
    /\ index' = [index EXCEPT ![s] = <<>>]
    /\ UNCHANGED <<now, chunks, wstate, slock, wrec, windex, wnew,
                   gc_mutex, exclusive, gcpc, gcerr, gc_oldest, gc_start,
                   gc_list, gc_cur, gc_conc, gc_removed, last_gc_status>>

-----------------------------------------------------------------------------
(***************************************************************************)
(* DataStore::garbage_collection.                                          *)
(***************************************************************************)

\* list_images: the index files under the store, in directory order.
RECURSIVE SetToSeq(_)
SetToSeq(S) ==
    IF S = {} THEN <<>>
    ELSE LET m == Min(S) IN <<m>> \o SetToSeq(S \ {m})

list_images == SetToSeq(snapshots)

\* self.gc_mutex.try_lock() succeeds.
gc_mutex_try_lock_skipped(g) == TRUE

gc_mutex_try_lock(g) == gc_mutex = 0

\* self.chunk_store.try_exclusive_lock() succeeds.
gc_try_exclusive_lock_skipped(g) == TRUE

gc_try_exclusive_lock(g) == try_exclusive_lock_ok

\* The guards of a returning call are dropped.
GcRelease(g) ==
    /\ gc_mutex' = IF gc_mutex = g THEN 0 ELSE gc_mutex
    /\ exclusive' = IF exclusive = g THEN 0 ELSE exclusive

GcFail(g, e) ==
    /\ gcpc' = [gcpc EXCEPT ![g] = "failed"]
    /\ gcerr' = [gcerr EXCEPT ![g] = e]

\* garbage_collection up to the start of the mark phase: try the mutex, try
\* the exclusive lock, sample oldest_writer, list the images. Callers are
\* interchangeable worker tasks: the call is made by the free caller of
\* lowest number.
garbage_collection(g) ==
    /\ ~Returning
    /\ gcpc[g] = "idle"
    /\ g = Min({c \in GcCallers : gcpc[c] = "idle"})
    /\ IF ~gc_mutex_try_lock(g)
       THEN /\ GcFail(g, "already running")
            /\ UNCHANGED <<gc_mutex, exclusive, gc_oldest, gc_start, gc_list,
                           gc_conc>>
       ELSE IF ~gc_try_exclusive_lock(g)
       THEN /\ GcFail(g, "lock")
            /\ gc_mutex' = 0
            /\ UNCHANGED <<exclusive, gc_oldest, gc_start, gc_list, gc_conc>>
       ELSE /\ gc_mutex' = g
            /\ exclusive' = g
            /\ gc_oldest' = oldest_writer
            /\ gc_start' = now
            /\ gc_list' = list_images
            /\ gc_conc' = \E w \in Writers : wstate[w] = "open"
            /\ gcpc' = [gcpc EXCEPT ![g] = "mark"]
            /\ UNCHANGED gcerr
    /\ UNCHANGED <<now, chunks, snapshots, index, wstate, slock, wrec, windex,
                   wnew, gc_cur, gc_removed, last_gc_status>>

\* index_mark_used_chunks, one position: touch_chunk fails on a missing file.
touch_chunk_fails_never(store, d) == FALSE

touch_chunk_fails(store, d) == ~store[d].present

\* index_mark_used_chunks, one position: touch the chunk.
index_mark_used_chunk_untouched(store, d, t) == store

index_mark_used_chunk(store, d, t) == touch_chunk(store, d, t)

\* tools::fail_on_shutdown: an error once request_shutdown has been called.
fail_on_shutdown_never(requested) == FALSE

fail_on_shutdown(requested) == requested

\* mark_used_chunks, one step: touch the next digest of the opened index,
\* or open the next image, or leave the mark phase. The shutdown check comes
\* first in each turn of both loops.
mark_used_chunks(g) ==
    /\ ~Returning
    /\ gcpc[g] = "mark"
    /\ IF (gc_cur # <<>> \/ gc_list # <<>>)
          /\ fail_on_shutdown(shutdown_requested)
       THEN /\ GcFail(g, "shutdown")
            /\ GcRelease(g)
            /\ UNCHANGED <<chunks, gc_cur, gc_list>>
       ELSE IF gc_cur # <<>>
       THEN LET d == Head(gc_cur) IN
            IF ~touch_chunk_fails(chunks, d)
            THEN /\ chunks' = index_mark_used_chunk(chunks, d, now)
                 /\ gc_cur' = Tail(gc_cur)
                 /\ UNCHANGED <<gc_mutex, exclusive, gcpc, gcerr, gc_list>>
            ELSE /\ GcFail(g, "chunk missing")
                 /\ GcRelease(g)
                 /\ UNCHANGED <<chunks, gc_cur, gc_list>>
       ELSE IF gc_list # <<>>
       THEN LET s == Head(gc_list) IN
            IF s \in snapshots
            THEN /\ gc_cur' = index[s]
                 /\ gc_list' = Tail(gc_list)
                 /\ UNCHANGED <<chunks, gc_mutex, exclusive, gcpc, gcerr>>
            ELSE /\ GcFail(g, "open index")
                 /\ GcRelease(g)
                 /\ UNCHANGED <<chunks, gc_cur, gc_list>>
       ELSE /\ gcpc' = [gcpc EXCEPT ![g] = "sweep"]
            /\ UNCHANGED <<chunks, gc_mutex, exclusive, gcerr, gc_cur, gc_list>>
    /\ UNCHANGED <<now, snapshots, index, wstate, slock, wrec, windex, wnew,
                   gc_oldest, gc_start, gc_conc, gc_removed, last_gc_status>>

\* The sweep call of garbage_collection.
gc_sweep_skipped(store, oldest, start) == store

gc_sweep(store, oldest, start) == sweep_unused_chunks(store, oldest, start)

\* Phase 2 and the end of garbage_collection: sweep, store the status, drop
\* the guards.
sweep_phase(g) ==
    /\ ~Returning
    /\ gcpc[g] = "sweep"
    /\ chunks' = gc_sweep(chunks, gc_oldest, gc_start)
    /\ gc_removed' = {d \in Digests : chunks[d].present
                                                /\ ~chunks'[d].present}
    /\ last_gc_status' = g
    /\ gcpc' = [gcpc EXCEPT ![g] = "done"]
    /\ gcerr' = [gcerr EXCEPT ![g] = "none"]
    /\ GcRelease(g)
    /\ UNCHANGED <<now, snapshots, index, wstate, slock, wrec, windex, wnew,
                   gc_oldest, gc_start, gc_list, gc_cur, gc_conc>>

\* A sweep that fails and stores the status all the same.
sweep_fails_stored(g) ==
    /\ ~Returning
    /\ gcpc[g] = "sweep"
    /\ GcFail(g, "sweep")
    /\ GcRelease(g)
    /\ last_gc_status' = g
    /\ UNCHANGED <<now, chunks, snapshots, index, wstate, slock, wrec, windex,
                   wnew, gc_oldest, gc_start, gc_list, gc_cur, gc_conc,
                   gc_removed>>

\* sweep_unused_chunks returns an error (before it has removed a chunk):
\* garbage_collection returns it and drops the guards.
sweep_fails(g) ==
    /\ ~Returning
    /\ gcpc[g] = "sweep"
    /\ GcFail(g, "sweep")
    /\ GcRelease(g)
    /\ UNCHANGED <<now, chunks, snapshots, index, wstate, slock, wrec, windex,
                   wnew, gc_oldest, gc_start, gc_list, gc_cur, gc_conc,
                   gc_removed, last_gc_status>>

\* The caller has taken the result; it may call again. The locals of a run
\* that went past the locks are gone with it.
gc_return(g) ==
    /\ gcpc[g] \in {"done", "failed"}
    /\ gcpc' = [gcpc EXCEPT ![g] = "idle"]
    /\ gcerr' = [gcerr EXCEPT ![g] = "none"]
    /\ IF gcerr[g] \in {"already running", "lock"}
       THEN UNCHANGED <<gc_oldest, gc_start, gc_list, gc_cur, gc_conc,
                        gc_removed>>
       ELSE /\ gc_oldest' = 0
            /\ gc_start' = 0
            /\ gc_list' = <<>>
            /\ gc_cur' = <<>>
            /\ gc_conc' = FALSE
            /\ gc_removed' = {}
    /\ UNCHANGED <<now, chunks, snapshots, index, wstate, slock, wrec, windex,
                   wnew, gc_mutex, exclusive, last_gc_status>>

-----------------------------------------------------------------------------
\* The datastore part but for the chunk files.
GcRestInit ==
    /\ now = 0
    /\ snapshots = {}
    /\ index = [s \in Snaps |-> <<>>]
    /\ wstate = [w \in Writers |-> "idle"]
    /\ slock = [p \in Syncs |-> FALSE]
    /\ wrec = [w \in Writers |-> NoRec]
    /\ windex = [w \in Writers |-> <<>>]
    /\ wnew = [w \in Writers |-> {}]
    /\ gc_mutex = 0
    /\ exclusive = 0
    /\ gcpc = [g \in GcCallers |-> "idle"]
    /\ gcerr = [g \in GcCallers |-> "none"]
    /\ gc_oldest = 0
    /\ gc_start = 0
    /\ gc_list = <<>>
    /\ gc_cur = <<>>
    /\ gc_conc = FALSE
    /\ gc_removed = {}
    /\ last_gc_status = 0

GcInit ==
    /\ chunks = [d \in Digests |-> NoChunk]
    /\ GcRestInit

gcOthers == <<insVars, pullVars, upVars, accVars, bwVars, pqVars,
              psVars, stVars, miscVars>>

Next ==
    \/ Tick /\ UNCHANGED gcOthers
    \/ (\E w \in Writers : create_writer(w)) /\ UNCHANGED gcOthers
    \/ (\E w \in Writers, d \in Digests : writer_insert_chunk(w, d))
          /\ UNCHANGED gcOthers
    \/ (\E w \in Writers, s \in Snaps : writer_close(w, s))
          /\ UNCHANGED gcOthers
    \/ (\E w \in Writers : writer_abort(w)) /\ UNCHANGED gcOthers
    \/ (\E p \in Syncs : try_shared_chunk_store_lock(p)) /\ UNCHANGED gcOthers
    \/ (\E p \in Syncs, d \in Digests : pull_index_chunk(p, d))
          /\ UNCHANGED gcOthers
    \/ (\E p \in Syncs : drop_shared_lock(p)) /\ UNCHANGED gcOthers
    \/ (\E s \in Snaps : remove_backup_dir(s)) /\ UNCHANGED gcOthers
    \/ (\E g \in GcCallers : garbage_collection(g)) /\ UNCHANGED gcOthers
    \/ (\E g \in GcCallers : mark_used_chunks(g)) /\ UNCHANGED gcOthers
    \/ (\E g \in GcCallers : sweep_phase(g)) /\ UNCHANGED gcOthers
    \/ (\E g \in GcCallers : sweep_fails(g)) /\ UNCHANGED gcOthers
    \/ (\E g \in GcCallers : gc_return(g)) /\ UNCHANGED gcOthers

\* The calls and files of the other parts of the model, at rest.
InsIdle ==
    /\ ipc = [c \in Inserters |-> "idle"]
    /\ idig = [c \in Inserters |-> 1]
    /\ itmp = [c \in Inserters |-> 0]
    /\ iexisted = [c \in Inserters |-> FALSE]
    /\ iover = FALSE

NoOutcome == [g \in Groups |-> "none"]

PullIdle ==
    /\ r_groups = {}
    /\ r_snaps = [g \in Groups |-> {}]
    /\ owner = [g \in Groups |-> "none"]
    /\ t_snaps = [g \in Groups |-> [t \in BackupTimes |-> "absent"]]
    /\ pl_pc = "idle"
    /\ delete = FALSE
    /\ errors = FALSE
    /\ new_groups = {}
    /\ pl_list = <<>>
    /\ pl_group = 0
    /\ pl_slist = <<>>
    /\ last_sync = 0
    /\ remote_snapshots = {}
    /\ pl_dlist = <<>>
    /\ pl_inserted = 0
    /\ pl_downloaded = 0
    /\ pl_removed = {}
    /\ pl_removed_groups = {}
    /\ pl_result = "none"
    /\ pl_requested = FALSE
    /\ pl_outcome = NoOutcome
    /\ pl_changed = {}

\* The upload pipeline before upload_chunk_info_stream has set it up.
UpPipeIdle ==
    /\ up_post_off = <<>>
    /\ up_buf = <<>>
    /\ up_new = <<>>
    /\ up_pend = [list |-> <<>>, resp |-> FALSE]
    /\ up_chan = <<>>
    /\ up_tx = TRUE
    /\ up_res = "none"
    /\ cq_st = "run"
    /\ cq_buf = <<>>
    /\ cq_item = [list |-> <<>>, resp |-> FALSE]
    /\ up_acked = {}
    /\ up_put_acked = 0
    /\ up_puts = 0
    /\ up_failed = FALSE

\* No POST {prefix}_close has been sent.
NoClose == [chunk_count |-> 0, size |-> 0, csum |-> <<0>>]

UpIdle ==
    /\ UpPipeIdle
    /\ up_pc = "idle"
    /\ up_input = <<>>
    /\ up_prev = {}
    /\ known_chunks = {}
    /\ up_pos = 0
    /\ stream_len = 0
    /\ up_posted = <<>>
    /\ up_index = <<>>
    /\ up_closes = 0
    /\ up_fixed = FALSE
    /\ up_csum = <<>>
    /\ up_repeat = 0
    /\ up_close_param = NoClose
    /\ up_requests = <<>>
    /\ up_error = ""

NoCall == [current_user |-> "", userid |-> "", password |-> 0,
           result |-> "none"]

AccIdle ==
    /\ passwords = [u \in Users |-> 0]
    /\ privs = {}
    /\ cp = NoCall

WriterIdle ==
    /\ bw_started = FALSE
    /\ bw_refs = 0
    /\ bw_aborted = FALSE
    /\ bw_abort_src = "none"
    /\ bw_fin = "none"
    /\ bw_lost = {}
    /\ srv_session = "none"
    /\ srv_arch = [a \in Archives |-> "none"]

ParseIdle ==
    /\ pq_pc = "idle"
    /\ pq_data = <<>>
    /\ pq_schema = [k \in ParamKeys |->
                      [defined |-> FALSE, optional |-> TRUE, type |-> "String"]]
    /\ pq_schema_additional = FALSE
    /\ pq_test_required = FALSE
    /\ pq_pos = 0
    /\ pq_params = [k \in ParamKeys |-> <<"null", "">>]
    /\ pq_errors = <<>>
    /\ pq_result = "none"

SnapIdle ==
    /\ ps_pc = "idle"
    /\ ps_remote = [a \in Archives |-> <<>>]
    /\ ps_manifest = "none"
    /\ ps_before = "none"
    /\ ps_tmp_manifest = FALSE
    /\ ps_present = {}
    /\ ps_file = [a \in Archives |-> <<>>]
    /\ ps_tmp = FALSE
    /\ ps_store = {}
    /\ ps_pos = 0
    /\ ps_cpos = 0
    /\ ps_fetched = <<>>
    /\ ps_attempts = 0
    /\ ps_result = "none"
    /\ ps_err = ""
    /\ ps_dir = {}

\* A BroadcastData that has not been notified and has no listener.
NoBroadcast == [result |-> FALSE, listeners |-> {}]

\* SERVER_STATE as lazy_static builds it, no future handed out.
ServerIdle ==
    /\ shutdown_requested = FALSE
    /\ mode = "Normal"
    /\ worker_count = 0
    /\ shutdown_listeners = NoBroadcast
    /\ last_worker_listeners = NoBroadcast
    /\ st_pc = "idle"
    /\ st_futures = [f \in Futures |-> "none"]
    /\ st_resolved = {}
    /\ st_notified = {}

\* No lookup_datastore call, nothing cached.
LookupIdle ==
    /\ ld_config = 1
    /\ ld_map = 0
    /\ ld_paths = <<>>
    /\ ld_pc = [c \in Lookups |-> "idle"]
    /\ ld_path = [c \in Lookups |-> 0]
    /\ ld_ret = [c \in Lookups |-> 0]

NoPath == <<>>

\* No pull_snapshot_from call, no snapshot directory.
FromIdle ==
    /\ sf_group = FALSE
    /\ sf_dir = "absent"
    /\ sf_pc = [c \in Pullers |-> "idle"]
    /\ sf_new = [c \in Pullers |-> FALSE]
    /\ sf_path = [c \in Pullers |-> NoPath]
    /\ sf_err = [c \in Pullers |-> "none"]
    /\ sf_logged = [c \in Pullers |-> FALSE]
    /\ sf_news = 0
    /\ sf_pre = FALSE

NoFile == [exists |-> FALSE, data |-> <<>>]

\* No download, no file.
TmpIdle ==
    /\ tf_remote = <<>>
    /\ tf_tmp = NoFile
    /\ tf_file = NoFile
    /\ tf_pc = "idle"

MiscIdle == LookupIdle /\ FromIdle /\ TmpIdle

\* The parts of the model outside the datastore and the chunk store, at rest.
RestIdle ==
    /\ PullIdle /\ UpIdle /\ AccIdle /\ WriterIdle /\ ParseIdle /\ SnapIdle
    /\ ServerIdle /\ MiscIdle

Init == GcInit /\ InsIdle /\ RestIdle

Spec == Init /\ [][Next]_vars

-----------------------------------------------------------------------------
(***************************************************************************)
(* Concurrent insert_chunk calls (SpecInsert).                             *)
(***************************************************************************)

gcRest == <<snapshots, index, wstate, slock, wrec, windex, wnew, gc_mutex,
            exclusive, gcpc, gcerr, gc_oldest, gc_start, gc_list, gc_cur,
            gc_conc, gc_removed, last_gc_status>>

InsTick ==
    /\ now < MaxTime
    /\ now' = now + 1
    /\ UNCHANGED <<chunks, gcRest, insVars>>

\* insert_chunk, first half: the blob is written to a temp file in the
\* shard directory and synced.
insert_chunk_write_tmp(c, d) ==
    /\ ipc[c] = "idle"
    /\ ipc' = [ipc EXCEPT ![c] = "tmp"]
    /\ idig' = [idig EXCEPT ![c] = d]
    /\ itmp' = [itmp EXCEPT ![c] = BlobOf(d)]
    /\ iexisted' = [iexisted EXCEPT ![c] = FALSE]
    /\ iover' = (iover \/ \E c2 \in Inserters \ {c} :
                              ipc[c2] = "tmp" /\ idig[c2] = d)
    /\ UNCHANGED <<now, chunks, gcRest>>

\* The "existed" that insert_chunk returns.
insert_existed_never(store, d) == FALSE

insert_existed(store, d) == store[d].present

\* The file that ends up under the final name: the temp file is renamed
\* into place unless the final name exists, and then it is discarded.
insert_chunk_rename(store, d, blob, t) ==
    IF insert_existed(store, d)
    THEN store
    ELSE [store EXCEPT ![d] = [present |-> TRUE, atime |-> t, ctime |-> t,
                               data |-> blob]]

\* insert_chunk, second half, atomic: rename or discard, and return.
insert_chunk_commit(c) ==
    /\ ipc[c] = "tmp"
    /\ chunks' = insert_chunk_rename(chunks, idig[c], itmp[c], now)
    /\ iexisted' = [iexisted EXCEPT ![c] = insert_existed(chunks, idig[c])]
    /\ ipc' = [ipc EXCEPT ![c] = "done"]
    /\ itmp' = [itmp EXCEPT ![c] = 0]
    /\ UNCHANGED <<now, idig, iover, gcRest>>

insOthers == <<pullVars, upVars, accVars, bwVars, pqVars,
               psVars, stVars, miscVars>>

InsNext ==
    \/ InsTick /\ UNCHANGED insOthers
    \/ (\E c \in Inserters, d \in Digests : insert_chunk_write_tmp(c, d))
          /\ UNCHANGED insOthers
    \/ (\E c \in Inserters : insert_chunk_commit(c)) /\ UNCHANGED insOthers

SpecInsert == Init /\ [][InsNext]_vars

-----------------------------------------------------------------------------
(***************************************************************************)
(* Garbage collection: what a run keeps and what it removes.               *)
(***************************************************************************)

\* The digests some index file of some snapshot names.
Referenced == UNION {Range(index[s]) : s \in snapshots}

\* A garbage_collection call has just completed, and no writer or sync was
\* active at any moment of it.
GcDoneAlone == (\E g \in GcCallers : gcpc[g] = "done") /\ ~gc_conc

\* The cutoff of the completed run: files with an older atime are swept.
Cutoff == gc_start - CHUNK_MAX_AGE

\* C1: after a garbage collection that completed with no concurrent writer,
\* every chunk referenced by an index file of a snapshot is present.
C1_ReferencedChunksKept ==
    GcDoneAlone => \A d \in Referenced : chunks[d].present

\* A completed run kept a referenced chunk that was old enough to be swept.
C1_Witness ==
    /\ GcDoneAlone
    /\ \E d \in Referenced : chunks[d].present /\ chunks[d].ctime < Cutoff

\* C2 as stated: after a garbage collection that completed with no
\* concurrent writer, no unreferenced chunk file is left.
C2_AllUnreferencedRemoved ==
    GcDoneAlone => \A d \in Digests : chunks[d].present => d \in Referenced

\* C2, amended: after a garbage collection that completed with no concurrent
\* writer, no unreferenced chunk file with an atime older than the cutoff is
\* left, and every chunk the run removed is unreferenced.
C2_OldUnreferencedRemoved ==
    GcDoneAlone =>
        /\ \A d \in Digests :
              (chunks[d].present /\ d \notin Referenced)
                  => chunks[d].atime >= Cutoff
        /\ \A d \in gc_removed : d \notin Referenced

\* A completed run removed a chunk and kept one a snapshot still references.
C2_Witness ==
    /\ GcDoneAlone
    /\ gc_removed # {}
    /\ \E d \in Referenced : chunks[d].present

C4_SingleFlight ==
    /\ [](/\ Cardinality({g \in GcCallers : GcRunning(g)}) <= 1
          /\ \A g \in GcCallers : GcRunning(g) => gc_mutex = g)
    /\ [][\A g \in GcCallers :
            (/\ gcpc[g] = "idle"
             /\ gcpc'[g] # "idle"
             /\ \E h \in GcCallers \ {g} : GcRunning(h))
                => /\ gcpc'[g] = "failed"
                   /\ gcerr'[g] = "already running"
                   /\ chunks' = chunks]_vars

\* A second call has failed while the first is in its mark or sweep phase.
C4_Witness ==
    \E g, h \in GcCallers :
        /\ g # h
        /\ GcRunning(g)
        /\ gcpc[h] = "failed"
        /\ gcerr[h] = "already running"

-----------------------------------------------------------------------------
(***************************************************************************)
(* insert_chunk.                                                           *)
(***************************************************************************)

\* The calls for digest d that have returned.
InsDone(d) == {c \in Inserters : ipc[c] = "done" /\ idig[c] = d}

\* C5: as soon as one of the concurrent insert_chunk calls for a digest has
\* returned, the file under the final name holds the blob, and exactly one
\* of the calls that have returned got existed = false.
C5_InsertIdempotent ==
    \A d \in Digests :
        InsDone(d) # {}
            => /\ Cardinality({c \in InsDone(d) : ~iexisted[c]}) = 1
               /\ chunks[d].present
               /\ chunks[d].data = BlobOf(d)

\* Two calls for one digest, whose temp files existed at the same time, have
\* both returned.
C5_Witness ==
    \E c1, c2 \in Inserters :
        /\ iover
        /\ c1 # c2
        /\ ipc[c1] = "done"
        /\ ipc[c2] = "done"
        /\ idig[c1] = idig[c2]
        /\ chunks[idig[c1]].present
        /\ itmp[c1] = 0
        /\ itmp[c2] = 0

-----------------------------------------------------------------------------
(***************************************************************************)
(* change_password (SpecAccess).                                           *)
(***************************************************************************)

\* rpcenv.get_user(): the authenticated caller, "" if there is none.
Callers == Users \cup {""}

\* user_info.lookup_privs(current_user, &[]) & PRIV_PERMISSIONS_MODIFY != 0
lookup_privs(current_user) == current_user \in privs

\* The permission check of change_password.
change_password_allowed(current_user, userid) ==
    \/ userid = current_user
    \/ userid = "root@pam"
    \/ lookup_privs(current_user)

\* authenticator.store_password
store_password(pw, userid, password) == [pw EXCEPT ![userid] = password]

\* One change_password call, whole: the result is kept in cp.
change_password(current_user, userid, password, store_ok) ==
    /\ cp' = [current_user |-> current_user, userid |-> userid,
              password |-> password,
              result |-> IF current_user = "" THEN "unknown user"
                         ELSE IF ~change_password_allowed(current_user, userid)
                         THEN "not authorized"
                         ELSE IF ~store_ok THEN "store failed"
                         ELSE "ok"]
    /\ passwords' = IF cp'.result = "ok"
                    THEN store_password(passwords, userid, password)
                    ELSE passwords
    /\ UNCHANGED privs

accOthers == <<gcVars, insVars, pullVars, upVars, bwVars, pqVars,
               psVars, stVars, miscVars>>

AccNext ==
    \E current_user \in Callers, userid \in Users,
       password \in Passwords \ {0}, store_ok \in BOOLEAN :
        /\ change_password(current_user, userid, password, store_ok)
        /\ UNCHANGED accOthers

\* The privileges are configuration: any set of users may hold the privilege.
AccInit ==
    /\ passwords = [u \in Users |-> 0]
    /\ privs \in SUBSET Users
    /\ cp = NoCall

InitAccess ==
    /\ GcInit /\ InsIdle /\ PullIdle /\ UpIdle /\ AccInit /\ WriterIdle
    /\ SnapIdle /\ ServerIdle /\ MiscIdle
    /\ ParseIdle

SpecAccess == InitAccess /\ [][AccNext]_vars

\* C9: a change_password call stores the password of user U only if the
\* caller is U, or the caller is the superuser or holds Permissions:Modify.
C9_OnlyAuthorizedStores ==
    [][(cp'.result = "ok" /\ (cp' # cp \/ passwords' # passwords))
          => \/ cp'.current_user = cp'.userid
             \/ cp'.current_user = "root@pam"
             \/ lookup_privs(cp'.current_user)]_vars

-----------------------------------------------------------------------------
(***************************************************************************)
(* BackupWriter::upload_stream, one archive (SpecUpload).                  *)
(***************************************************************************)

\* The length of the chunk of a digest.
ChunkLen(d) == d

\* A SHA-256 digest has 32 bytes, a u64 offset 8.
DigestSize == 32

OffsetSize == 8

RECURSIVE SeqsUpTo(_)
\* The sequences over UpDigests of length at most n.
SeqsUpTo(n) ==
    IF n = 0 THEN {<<>>}
    ELSE LET shorter == SeqsUpTo(n - 1)
         IN shorter \cup {Append(q, d) : q \in {x \in shorter : Len(x) = n - 1},
                                         d \in UpDigests}

\* download_chunk_list: the digests of the previous snapshot's index are
\* inserted into known_chunks; a failed download fails upload_stream.
\* The error of a request is not looked at.
try_result_ignored(ok, next) == next

\* `.await?`: upload_stream goes on with an Ok and returns an Err.
try_result(ok, next) == IF ok THEN next ELSE "failed"

download_chunk_list(ok) ==
    /\ up_pc = "idle"
    /\ up_pc' = try_result(ok, "listed")
    /\ known_chunks' = IF ok THEN known_chunks \cup up_prev ELSE known_chunks
    /\ UNCHANGED <<up_input, up_prev, up_pos, stream_len, up_posted, up_index,
                   up_closes, up_post_off, upPipe, upSum>>
    /\ up_requests' = Append(up_requests, "GET index")
    /\ up_error' = IF ok THEN up_error ELSE "download"

\* POST {prefix}_index: the server opens the index writer and returns wid.
post_index(ok) ==
    /\ up_pc = "listed"
    /\ up_pc' = try_result(ok, "stream")
    /\ UNCHANGED <<up_input, up_prev, known_chunks, up_pos, stream_len,
                   up_posted, up_index, up_closes, up_post_off, upPipe, upSum>>
    /\ up_requests' = Append(up_requests, "POST index")
    /\ up_error' = IF ok THEN up_error ELSE "index"

chunk_is_known(known, digest) == digest \in known

known_chunks_insert_skipped(known, digest) == known

known_chunks_insert(known, digest) == known \cup {digest}

\* An item of the upload queue (MergedChunkInfo::Known with the response
\* future of the chunk upload, if one was sent); NoItem: nothing.
NoItem == [list |-> <<>>, resp |-> FALSE]

\* The main task of upload_chunk_info_stream ends with result res: the
\* sender of the upload queue is dropped, what it still held is discarded.
MainEnds(res) ==
    /\ up_pc' = "drain"
    /\ up_res' = res
    /\ up_tx' = FALSE
    /\ up_buf' = <<>>
    /\ up_new' = <<>>
    /\ up_pend' = NoItem

\* merge_known_chunks: a list of consecutive Known items is passed on when
\* it has MergeMax entries.
merge_full(list) == Len(list) >= MergeMax

\* try_for_each: the future of the item before, its send into the upload
\* queue, has not completed.
send_pending_never(pend) == FALSE

send_pending(pend) == pend # NoItem

\* stream_len.fetch_add(chunk_len): the offset of a chunk is the length of
\* the stream before it.
chunk_offset_end(len_before, chunk_len) == len_before + chunk_len

chunk_offset(len_before, chunk_len) == len_before

RECURSIVE to_le_bytes(_, _)
\* u64::to_le_bytes: the n bytes of a value, least significant first.
to_le_bytes(v, n) ==
    IF n = 0 THEN <<>> ELSE <<v % 256>> \o to_le_bytes(v \div 256, n - 1)

\* The 32 bytes of a chunk digest.
DigestBytes(d) == [i \in 1..DigestSize |-> (d * i) % 256]

\* index_csum: the digest only, whatever the archive.
csum_update_digest_only(fixed, csum, chunk_end, digest) ==
    csum \o DigestBytes(digest)

\* index_csum: csum.update(&chunk_end.to_le_bytes()) unless the chunk size
\* is fixed, then csum.update(digest). The SHA-256 state is the bytes fed.
csum_update(fixed, csum, chunk_end, digest) ==
    csum \o (IF fixed THEN <<>> ELSE to_le_bytes(chunk_end, OffsetSize))
         \o DigestBytes(digest)

\* upload_chunk_info_stream, one item of the input stream: offset and
\* digest; a known chunk joins the list of Known items, a new one is inserted
\* into known_chunks and, after the list before it has been passed on,
\* POSTed to {prefix}_chunk. An Err item ends the stream with the error.
upload_chunk_info_stream(ok) ==
    /\ up_pc = "stream"
    /\ ~send_pending(up_pend)
    /\ up_new = <<>>
    /\ up_pos < Len(up_input)
    /\ IF ~ok
       THEN /\ MainEnds("err")
            /\ UNCHANGED <<up_pos, stream_len, known_chunks, up_posted,
                           up_post_off, up_csum, up_repeat>>
       ELSE LET digest == up_input[up_pos + 1]
                chunk_len == ChunkLen(digest)
                offset == chunk_offset(stream_len, chunk_len)
                is_known == chunk_is_known(known_chunks, digest)
                merged == Append(up_buf, <<offset, digest>>)
                chunk_end == chunk_offset_end(offset, chunk_len)
            IN /\ up_pos' = up_pos + 1
               /\ up_repeat' = up_repeat + 1
               /\ stream_len' = stream_len + chunk_len
               /\ up_csum' = csum_update(up_fixed, up_csum, chunk_end,
                                         digest)
               /\ known_chunks' =
                     IF is_known THEN known_chunks
                     ELSE known_chunks_insert(known_chunks, digest)
               /\ up_buf' = IF is_known /\ ~merge_full(merged) THEN merged
                            ELSE <<>>
               /\ up_new' = IF ~is_known /\ up_buf # <<>>
                            THEN <<offset, digest>> ELSE <<>>
               /\ up_pend' =
                     IF is_known
                     THEN IF merge_full(merged)
                          THEN [list |-> merged, resp |-> FALSE] ELSE NoItem
                     ELSE IF up_buf # <<>>
                          THEN [list |-> up_buf, resp |-> FALSE]
                          ELSE [list |-> <<<<offset, digest>>>>, resp |-> TRUE]
               /\ up_posted' = IF ~is_known /\ up_buf = <<>>
                               THEN Append(up_posted, digest) ELSE up_posted
               /\ up_post_off' = IF ~is_known /\ up_buf = <<>>
                                 THEN Append(up_post_off, offset)
                                 ELSE up_post_off
               /\ UNCHANGED <<up_pc, up_res, up_tx>>
    /\ UNCHANGED <<up_input, up_prev, up_index, up_closes, up_chan, cq_st,
                   cq_buf, cq_item, up_acked, up_put_acked, up_puts, up_failed,
                   up_fixed, up_close_param, up_error>>
    /\ up_requests' = IF Len(up_posted') > Len(up_posted)
                       THEN Append(up_requests, "POST chunk")
                       ELSE up_requests

\* The new chunk that waited for the Known list before it is POSTed to
\* {prefix}_chunk: the request is sent, its response future goes to the queue.
upload_new_chunk ==
    /\ up_pc = "stream"
    /\ up_pend = NoItem
    /\ up_new # <<>>
    /\ up_posted' = Append(up_posted, up_new[2])
    /\ up_post_off' = Append(up_post_off, up_new[1])
    /\ up_pend' = [list |-> <<up_new>>, resp |-> TRUE]
    /\ up_new' = <<>>
    /\ UNCHANGED <<up_pc, up_input, up_prev, known_chunks, up_pos, stream_len,
                   up_index, up_closes, up_buf, up_chan, up_tx, up_res, cq_st,
                   cq_buf, cq_item, up_acked, up_put_acked, up_puts, up_failed,
                   upSum, up_error>>
    /\ up_requests' = Append(up_requests, "POST chunk")

\* mpsc::channel(ChannelCap): the channel takes no further item.
channel_full_never(chan) == FALSE

channel_full(chan) == Len(chan) >= ChannelCap

\* upload_queue.send(..).await: the item enters the channel when it has
\* room; the send fails when the receiving task has ended.
upload_queue_send ==
    /\ up_pc = "stream"
    /\ up_pend # NoItem
    /\ IF cq_st = "err"
       THEN /\ MainEnds("err")
            /\ UNCHANGED up_chan
       ELSE /\ ~channel_full(up_chan)
            /\ up_chan' = Append(up_chan, up_pend)
            /\ up_pend' = NoItem
            /\ UNCHANGED <<up_pc, up_res, up_tx, up_buf, up_new>>
    /\ UNCHANGED <<up_input, up_prev, known_chunks, up_pos, stream_len,
                   up_posted, up_post_off, up_index, up_closes, cq_st, cq_buf,
                   cq_item, up_acked, up_put_acked, up_puts, up_failed, upSum,
                   upLog>>

\* The input stream has ended: the Known list still held is passed on; then
\* the stream of upload_chunk_info_stream is finished.
upload_stream_end ==
    /\ up_pc = "stream"
    /\ up_pend = NoItem
    /\ up_new = <<>>
    /\ up_pos = Len(up_input)
    /\ IF up_buf # <<>>
       THEN /\ up_pend' = [list |-> up_buf, resp |-> FALSE]
            /\ up_buf' = <<>>
            /\ UNCHANGED <<up_pc, up_res, up_tx, up_new>>
       ELSE MainEnds("ok")
    /\ UNCHANGED <<up_input, up_prev, known_chunks, up_pos, stream_len,
                   up_posted, up_post_off, up_index, up_closes, up_chan, cq_st,
                   cq_buf, cq_item, up_acked, up_put_acked, up_puts, up_failed,
                   upSum, upLog>>

\* The task of append_chunk_queue ends with an error: the receiver of the
\* upload queue is dropped with what the channel held.
QueueFails ==
    /\ cq_st' = "err"
    /\ up_failed' = TRUE
    /\ up_chan' = <<>>
    /\ cq_buf' = <<>>
    /\ cq_item' = NoItem

\* The task of append_chunk_queue waits for the response of the chunk upload
\* of an item before it passes the item on.
response_awaited_never(resp) == FALSE

response_awaited(resp) == resp

\* append_chunk_queue: the task takes the next item from the channel.
append_chunk_recv ==
    /\ cq_st = "run"
    /\ up_chan # <<>>
    /\ cq_st' = "wait"
    /\ cq_item' = Head(up_chan)
    /\ up_chan' = Tail(up_chan)
    /\ UNCHANGED <<up_pc, up_input, up_prev, known_chunks, up_pos, stream_len,
                   up_posted, up_post_off, up_index, up_closes, up_buf, up_new,
                   up_pend, up_tx, up_res, cq_buf, up_acked, up_put_acked,
                   up_puts, up_failed, upSum, upLog>>

\* append_chunk_queue, the item taken from the channel: the response of its
\* chunk upload is awaited, the item joins the list of Known items, and the
\* list is sent in a PUT {prefix}_index request when it has MergeMax entries.
append_chunk_queue(ok) ==
    /\ cq_st = "wait"
    /\ LET item == cq_item
           merged == cq_buf \o item.list
       IN /\ ok \/ item.resp
          /\ IF response_awaited(item.resp) /\ ~ok
             THEN /\ QueueFails
                  /\ UNCHANGED <<up_acked, up_index, up_puts>>
             ELSE /\ cq_item' = NoItem
                  /\ UNCHANGED up_chan
                  /\ up_acked' = IF response_awaited(item.resp)
                                 THEN up_acked \cup {item.list[1][1]}
                                 ELSE up_acked
                  /\ IF merge_full(merged)
                     THEN /\ cq_st' = "put"
                          /\ cq_buf' = <<>>
                          /\ up_index' = up_index \o merged
                          /\ up_puts' = up_puts + 1
                     ELSE /\ cq_buf' = merged
                          /\ cq_st' = "run"
                          /\ UNCHANGED <<up_index, up_puts>>
                  /\ UNCHANGED up_failed
    /\ UNCHANGED <<up_pc, up_input, up_prev, known_chunks, up_pos, stream_len,
                   up_posted, up_post_off, up_closes, up_buf, up_new, up_pend,
                   up_tx, up_res, up_put_acked, upSum, up_error>>
    /\ up_requests' = IF up_puts' > up_puts
                       THEN Append(up_requests, "PUT index")
                       ELSE up_requests

\* append_chunk_queue: the response of the PUT {prefix}_index request.
append_chunk_response(ok) ==
    /\ cq_st = "put"
    /\ IF ok
       THEN /\ cq_st' = "run"
            /\ up_put_acked' = up_put_acked + 1
            /\ UNCHANGED <<up_failed, up_chan, cq_buf, cq_item>>
       ELSE /\ QueueFails
            /\ UNCHANGED up_put_acked
    /\ UNCHANGED <<up_pc, up_input, up_prev, known_chunks, up_pos, stream_len,
                   up_posted, up_post_off, up_index, up_closes, up_buf, up_new,
                   up_pend, up_tx, up_res, up_acked, up_puts, upSum, upLog>>

\* append_chunk_queue: the channel is empty and its sender dropped; the list
\* still held is sent, then the result goes to verify_result_tx.
append_chunk_queue_end ==
    /\ cq_st = "run"
    /\ up_chan = <<>>
    /\ ~up_tx
    /\ IF cq_buf # <<>>
       THEN /\ cq_st' = "put"
            /\ up_index' = up_index \o cq_buf
            /\ up_puts' = up_puts + 1
            /\ cq_buf' = <<>>
       ELSE /\ cq_st' = "done"
            /\ UNCHANGED <<up_index, up_puts, cq_buf>>
    /\ UNCHANGED <<up_pc, up_input, up_prev, known_chunks, up_pos, stream_len,
                   up_posted, up_post_off, up_closes, up_buf, up_new, up_pend,
                   up_chan, up_tx, up_res, cq_item, up_acked, up_put_acked,
                   up_failed, upSum, up_error>>
    /\ up_requests' = IF up_puts' > up_puts
                       THEN Append(up_requests, "PUT index")
                       ELSE up_requests

\* upload_result.await?.and(result): Ok only if both the queue task and the
\* stream of the main task ended with Ok.
stream_result_ignoring_queue(queue_ok, res) == res = "ok"

stream_result(queue_ok, res) == queue_ok /\ res = "ok"

\* The result of upload_chunk_info_stream, once the queue task has sent its.
upload_result ==
    /\ up_pc = "drain"
    /\ cq_st \in {"done", "err"}
    /\ up_pc' = IF stream_result(cq_st = "done", up_res) THEN "joined"
                ELSE "failed"
    /\ UNCHANGED <<up_input, up_prev, known_chunks, up_pos, stream_len,
                   up_posted, up_post_off, up_index, up_closes, upPipe, upSum,
                   up_requests>>
    /\ up_error' = IF up_pc' = "failed" THEN "stream" ELSE up_error

\* upload_chunk_info_stream returned Ok: POST {prefix}_close.
upload_close(ok) ==
    /\ up_pc = "joined"
    /\ up_closes' = up_closes + 1
    /\ up_close_param' = [chunk_count |-> up_repeat, size |-> stream_len,
                          csum |-> up_csum]
    /\ up_pc' = try_result(ok, "closed")
    /\ UNCHANGED <<up_input, up_prev, known_chunks, up_pos, stream_len,
                   up_posted, up_post_off, up_index, upPipe, up_fixed,
                   up_csum, up_repeat>>
    /\ up_requests' = Append(up_requests, "POST close")
    /\ up_error' = IF ok THEN up_error ELSE "close"

upOthers == <<gcVars, insVars, pullVars, accVars, bwVars, pqVars,
              psVars, stVars, miscVars>>

UpNext ==
    \/ (\E ok \in BOOLEAN : download_chunk_list(ok)) /\ UNCHANGED upOthers
    \/ (\E ok \in BOOLEAN : post_index(ok)) /\ UNCHANGED upOthers
    \/ (\E ok \in BOOLEAN : upload_chunk_info_stream(ok)) /\ UNCHANGED upOthers
    \/ upload_new_chunk /\ UNCHANGED upOthers
    \/ upload_queue_send /\ UNCHANGED upOthers
    \/ upload_stream_end /\ UNCHANGED upOthers
    \/ append_chunk_recv /\ UNCHANGED upOthers
    \/ (\E ok \in BOOLEAN : append_chunk_queue(ok)) /\ UNCHANGED upOthers
    \/ (\E ok \in BOOLEAN : append_chunk_response(ok)) /\ UNCHANGED upOthers
    \/ append_chunk_queue_end /\ UNCHANGED upOthers
    \/ upload_result /\ UNCHANGED upOthers
    \/ (\E ok \in BOOLEAN : upload_close(ok)) /\ UNCHANGED upOthers

\* Any input stream, after any previous snapshot.
UpInit ==
    /\ UpPipeIdle
    /\ up_pc = "idle"
    /\ up_input \in SeqsUpTo(MaxStreamLen)
    /\ up_prev \in SUBSET UpDigests
    /\ known_chunks = {}
    /\ up_pos = 0
    /\ stream_len = 0
    /\ up_posted = <<>>
    /\ up_index = <<>>
    /\ up_closes = 0
    /\ up_fixed \in BOOLEAN
    /\ up_csum = <<>>
    /\ up_repeat = 0
    /\ up_close_param = NoClose
    /\ up_requests = <<>>
    /\ up_error = ""

InitUpload ==
    /\ GcInit /\ InsIdle /\ PullIdle /\ UpInit /\ AccIdle /\ WriterIdle
    /\ SnapIdle /\ ServerIdle /\ MiscIdle
    /\ ParseIdle

SpecUpload == InitUpload /\ [][UpNext]_vars

\* The tasks of the upload are scheduled and every request is answered.
SpecUploadFair == SpecUpload /\ WF_vars(UpNext)

\* The digests of the chunks taken from the input stream so far.
UpSeen == {up_input[i] : i \in 1..up_pos}

\* C8: the digests POSTed to {prefix}_chunk are the digests of the stream
\* taken so far that are not in the downloaded known-chunk list, each posted
\* once; an archive whose digests are all in that list posts no chunk, and
\* ends with one registration per chunk and one close.
C8_KnownChunkDedup ==
    /\ \A i \in DOMAIN up_posted : up_posted[i] \notin up_prev
    /\ \A i, j \in DOMAIN up_posted : up_posted[i] = up_posted[j] => i = j
    /\ Range(up_posted) \subseteq UpSeen \ up_prev
    /\ up_pc = "closed" => Range(up_posted) = UpSeen \ up_prev
    /\ (up_pc = "closed" /\ Range(up_input) \subseteq up_prev)
           => /\ up_posted = <<>>
              /\ Len(up_index) = Len(up_input)
              /\ up_closes = 1

\* An upload was closed whose stream repeats a digest that is not in the
\* known-chunk list and has a chunk that is in it: one chunk was posted.
C8_Witness ==
    /\ up_pc = "closed"
    /\ Len(up_posted) = 1
    /\ \E i, j \in DOMAIN up_input :
          i < j /\ up_input[i] = up_input[j] /\ up_input[i] \notin up_prev
    /\ \E k \in DOMAIN up_input : up_input[k] \in up_prev

-----------------------------------------------------------------------------
(***************************************************************************)
(* The sync engine: pull_store, pull_group, pull_snapshot_from (SpecPull). *)
(* The remote is fixed. A snapshot directory of the target is "absent",    *)
(* "partial" (no manifest), "synced" (its manifest and index are those of  *)
(* the remote snapshot of that time) or "local" (manifest and index        *)
(* differ from the remote's).                                              *)
(***************************************************************************)

\* The sync operation that runs pull_store.
PullProc == 1

\* The frame of the sync engine in the datastore part.
pullFrame == <<snapshots, index, wstate, wrec, windex, wnew, gc_mutex,
               exclusive, gcpc, gcerr, gc_oldest, gc_start, gc_list, gc_cur,
               gc_conc, gc_removed, last_gc_status>>

Max(S) == CHOOSE x \in S : \A y \in S : x >= y

\* The digest the index of remote snapshot (g, t) names.
RemoteDigest(g, t) == ((g + t) % NDigests) + 1

\* DataStore::last_successful_backup: the newest snapshot of the group that
\* has a manifest, 0 for None.
last_successful_backup(g) ==
    LET finished == {t \in BackupTimes : t_snaps[g][t] \in {"synced", "local"}}
    IN IF finished = {} THEN 0 ELSE Max(finished)

\* BackupGroup::list_backups: the snapshot directories of the group.
list_backups(g) == {t \in BackupTimes : t_snaps[g][t] # "absent"}

\* BackupGroup::list_groups: the group directories of the store.
list_groups == {g \in Groups : owner[g] # "none"}

\* DataStore::create_backup_group: create the directory and take ownership
\* if there is none; the owner is returned.
create_backup_group(g) == IF owner[g] = "none" THEN "me" ELSE owner[g]

\* DataStore::cond_touch_chunk(digest, false): TRUE and atime updated if the
\* chunk is there, FALSE if it is missing.
cond_touch_chunk(store, d, t) ==
    IF store[d].present THEN touch_chunk(store, d, t) ELSE store

\* The permission check of pull_store: owner != username.
owner_mismatch_never(o) == FALSE

owner_mismatch(o) == o # "me"

\* tgt_store.try_shared_chunk_store_lock() of pull_store succeeds.
pull_try_shared_lock_skipped(p) == TRUE

pull_try_shared_lock(p) == try_shared_lock_ok

\* pull_store is called: shared lock, then the request for the remote group
\* list. If the request fails the lock is dropped with the return.
pull_store_start(del, ok) ==
    /\ pl_pc = "idle"
    /\ ~slock[PullProc]
    /\ IF ~pull_try_shared_lock(PullProc)
       THEN /\ pl_result' = "err"
            /\ pl_requested' = FALSE
            /\ UNCHANGED <<slock, pl_pc, pl_list, new_groups>>
       ELSE IF ~ok
       THEN /\ pl_result' = "err"
            /\ pl_requested' = TRUE
            /\ UNCHANGED <<slock, pl_pc, pl_list, new_groups>>
       ELSE /\ slock' = [slock EXCEPT ![PullProc] = TRUE]
            /\ pl_requested' = TRUE
            /\ pl_pc' = "groups"
            /\ pl_list' = SetToSeq(r_groups)
            /\ new_groups' = r_groups
            /\ pl_result' = pl_result
    /\ delete' = del
    /\ errors' = FALSE
    /\ pl_outcome' = NoOutcome
    /\ pl_changed' = {}
    /\ pl_inserted' = 0
    /\ pl_downloaded' = 0
    /\ pl_removed' = {}
    /\ pl_removed_groups' = {}
    /\ UNCHANGED <<now, chunks, pullFrame, r_groups, r_snaps, owner, t_snaps,
                   pl_group, pl_slist, last_sync, remote_snapshots, pl_dlist>>

\* pull_store, one group of the list: create_backup_group, whose failure
\* ends pull_store with the error, and the owner check, then pull_group up
\* to its loop over the remote snapshots.
pull_store_group(created, ok) ==
    /\ pl_pc = "groups"
    /\ pl_list # <<>>
    /\ LET g == Head(pl_list)
       IN IF ~created
          THEN /\ errors' = TRUE
               /\ pl_pc' = "done"
               /\ pl_list' = <<>>
               /\ UNCHANGED <<owner, pl_group, pl_slist, last_sync,
                              remote_snapshots>>
          ELSE
          /\ owner' = [owner EXCEPT ![g] = create_backup_group(g)]
          /\ pl_list' = Tail(pl_list)
          /\ IF owner_mismatch(owner'[g]) \/ ~ok
             THEN /\ errors' = TRUE
                  /\ UNCHANGED <<pl_pc, pl_group, pl_slist, last_sync,
                                 remote_snapshots>>
             ELSE /\ pl_pc' = "snaps"
                  /\ pl_group' = g
                  /\ pl_slist' = SetToSeq(r_snaps[g])
                  /\ last_sync' = last_successful_backup(g)
                  /\ remote_snapshots' = {}
                  /\ errors' = errors
    /\ pl_outcome' = [pl_outcome EXCEPT ![Head(pl_list)] =
                         IF ~created THEN "create"
                         ELSE IF owner_mismatch(owner'[Head(pl_list)])
                         THEN "owner"
                         ELSE IF ~ok THEN "pull" ELSE @]
    /\ UNCHANGED pl_changed
    /\ UNCHANGED pl_requested
    /\ UNCHANGED <<now, chunks, slock, pullFrame, r_groups, r_snaps, t_snaps,
                   delete, new_groups, pl_dlist, pl_inserted, pl_downloaded,
                   pl_removed, pl_removed_groups, pl_result>>

\* pull_group skips no snapshot.
skip_snapshot_never(last, backup_time) == FALSE

\* The snapshots pull_group skips: last_sync_time > backup_time.
skip_snapshot(last, backup_time) == last # 0 /\ last > backup_time

\* pull_snapshot_from after a failed pull_snapshot: a directory it created
\* itself (is_new) is removed again, an older one is left in place.
cleanup_failed_snapshot_always(is_new, st) == "absent"

cleanup_failed_snapshot(is_new, st) == IF is_new THEN "absent" ELSE st

\* pull_group, one item of the remote snapshot list: it is skipped, or
\* pull_snapshot_from runs: create_backup_dir, pull_snapshot, and the
\* cleanup of a new directory if pull_snapshot failed.
pull_group_snapshot(ok) ==
    /\ pl_pc = "snaps"
    /\ pl_slist # <<>>
    /\ LET g == pl_group
           t == Head(pl_slist)
           d == RemoteDigest(g, t)
           skip == skip_snapshot(last_sync, t)
           same == t_snaps[g][t] = "synced"
       IN /\ remote_snapshots' = remote_snapshots \cup {t}
          /\ IF skip \/ (ok /\ same)
             THEN /\ pl_slist' = Tail(pl_slist)
                  /\ UNCHANGED <<chunks, t_snaps, errors, pl_pc, pl_group,
                                 pl_inserted, pl_downloaded>>
             ELSE IF ok
             THEN /\ pl_slist' = Tail(pl_slist)
                  /\ pl_downloaded' = pl_downloaded + 1
                  /\ chunks' = IF chunks[d].present
                               THEN cond_touch_chunk(chunks, d, now)
                               ELSE insert_chunk(chunks, d, now)
                  /\ pl_inserted' = IF chunks[d].present THEN pl_inserted
                                    ELSE pl_inserted + 1
                  /\ t_snaps' = [t_snaps EXCEPT ![g][t] = "synced"]
                  /\ UNCHANGED <<errors, pl_pc, pl_group>>
             ELSE /\ errors' = TRUE
                  /\ pl_pc' = "groups"
                  /\ pl_group' = 0
                  /\ pl_slist' = <<>>
                  /\ t_snaps' = [t_snaps EXCEPT ![g][t] =
                        cleanup_failed_snapshot(t_snaps[g][t] = "absent", @)]
                  /\ UNCHANGED <<chunks, pl_inserted, pl_downloaded>>
    /\ pl_outcome' = IF pl_pc' # pl_pc
                     THEN [pl_outcome EXCEPT ![pl_group] = "pull"]
                     ELSE pl_outcome
    /\ pl_changed' = IF t_snaps' # t_snaps THEN pl_changed \cup {pl_group}
                     ELSE pl_changed
    /\ UNCHANGED pl_requested
    /\ UNCHANGED <<now, slock, pullFrame, r_groups, r_snaps, owner, delete,
                   new_groups, pl_list, last_sync, pl_dlist, pl_removed,
                   pl_removed_groups, pl_result>>

\* pull_group after the loop: with delete the local snapshots are listed,
\* without it pull_group returns.
pull_group_list_done ==
    /\ pl_pc = "snaps"
    /\ pl_slist = <<>>
    /\ IF delete
       THEN /\ pl_pc' = "delsnaps"
            /\ pl_dlist' = SetToSeq(list_backups(pl_group))
            /\ pl_group' = pl_group
       ELSE /\ pl_pc' = "groups"
            /\ pl_dlist' = <<>>
            /\ pl_group' = 0
    /\ pl_outcome' = IF delete THEN pl_outcome
                     ELSE [pl_outcome EXCEPT ![pl_group] = "ok"]
    /\ UNCHANGED pl_changed
    /\ UNCHANGED pl_requested
    /\ UNCHANGED <<now, chunks, slock, pullFrame, r_groups, r_snaps, owner,
                   t_snaps, delete, errors, new_groups, pl_list, pl_slist,
                   last_sync, remote_snapshots, pl_inserted, pl_downloaded,
                   pl_removed, pl_removed_groups, pl_result>>

\* A local snapshot that the deletion step of pull_group removes.
vanished_snapshot_never(remote, backup_time) == FALSE

vanished_snapshot(remote, backup_time) == backup_time \notin remote

\* pull_group, deletion step, one local snapshot: it is kept, or removed by
\* remove_backup_dir, whose failure ends pull_group with the error.
pull_group_delete(ok) ==
    /\ pl_pc = "delsnaps"
    /\ pl_dlist # <<>>
    /\ LET g == pl_group
           t == Head(pl_dlist)
       IN IF ~vanished_snapshot(remote_snapshots, t)
          THEN /\ pl_dlist' = Tail(pl_dlist)
               /\ UNCHANGED <<t_snaps, pl_removed, errors, pl_pc, pl_group>>
          ELSE IF ok
          THEN /\ pl_dlist' = Tail(pl_dlist)
               /\ t_snaps' = [t_snaps EXCEPT ![g][t] = "absent"]
               /\ pl_removed' = pl_removed \cup {<<g, t>>}
               /\ UNCHANGED <<errors, pl_pc, pl_group>>
          ELSE /\ errors' = TRUE
               /\ pl_pc' = "groups"
               /\ pl_group' = 0
               /\ pl_dlist' = <<>>
               /\ UNCHANGED <<t_snaps, pl_removed>>
    /\ pl_outcome' = IF pl_pc' # pl_pc
                     THEN [pl_outcome EXCEPT ![pl_group] = "pull"]
                     ELSE pl_outcome
    /\ pl_changed' = IF t_snaps' # t_snaps THEN pl_changed \cup {pl_group}
                     ELSE pl_changed
    /\ UNCHANGED pl_requested
    /\ UNCHANGED <<now, chunks, slock, pullFrame, r_groups, r_snaps, owner,
                   delete, new_groups, pl_list, pl_slist, last_sync,
                   remote_snapshots, pl_inserted, pl_downloaded,
                   pl_removed_groups, pl_result>>

\* pull_group returns Ok after its deletion step.
pull_group_return ==
    /\ pl_pc = "delsnaps"
    /\ pl_dlist = <<>>
    /\ pl_pc' = "groups"
    /\ pl_group' = 0
    /\ pl_outcome' = [pl_outcome EXCEPT ![pl_group] = "ok"]
    /\ UNCHANGED pl_changed
    /\ UNCHANGED pl_requested
    /\ UNCHANGED <<now, chunks, slock, pullFrame, r_groups, r_snaps, owner,
                   t_snaps, delete, errors, new_groups, pl_list, pl_slist,
                   last_sync, remote_snapshots, pl_dlist, pl_inserted,
                   pl_downloaded, pl_removed, pl_removed_groups, pl_result>>

\* pull_store after the loop over the groups: with delete the local groups
\* are listed.
pull_store_groups_done ==
    /\ pl_pc = "groups"
    /\ pl_list = <<>>
    /\ IF delete
       THEN /\ pl_pc' = "delgroups"
            /\ pl_list' = SetToSeq(list_groups)
       ELSE /\ pl_pc' = "done"
            /\ pl_list' = <<>>
    /\ UNCHANGED <<pl_outcome, pl_changed>>
    /\ UNCHANGED pl_requested
    /\ UNCHANGED <<now, chunks, slock, pullFrame, r_groups, r_snaps, owner,
                   t_snaps, delete, errors, new_groups, pl_group, pl_slist,
                   last_sync, remote_snapshots, pl_dlist, pl_inserted,
                   pl_downloaded, pl_removed, pl_removed_groups, pl_result>>

\* A local group that the deletion step of pull_store removes.
vanished_group(new, g) == g \notin new

\* pull_store, deletion step, one local group: it is kept, or removed by
\* remove_backup_group, whose failure sets errors.
pull_store_delete_group(ok) ==
    /\ pl_pc = "delgroups"
    /\ pl_list # <<>>
    /\ LET g == Head(pl_list)
       IN /\ pl_list' = Tail(pl_list)
          /\ IF ~vanished_group(new_groups, g)
             THEN UNCHANGED <<owner, t_snaps, pl_removed, pl_removed_groups,
                              errors>>
             ELSE IF ok
             THEN /\ owner' = [owner EXCEPT ![g] = "none"]
                  /\ t_snaps' = [t_snaps EXCEPT
                                    ![g] = [t \in BackupTimes |-> "absent"]]
                  /\ pl_removed' = pl_removed
                                     \cup {<<g, t>> : t \in list_backups(g)}
                  /\ pl_removed_groups' = pl_removed_groups \cup {g}
                  /\ errors' = errors
             ELSE /\ errors' = TRUE
                  /\ UNCHANGED <<owner, t_snaps, pl_removed,
                                 pl_removed_groups>>
    /\ pl_changed' = IF t_snaps' # t_snaps
                     THEN pl_changed \cup {Head(pl_list)}
                     ELSE pl_changed
    /\ UNCHANGED pl_outcome
    /\ UNCHANGED pl_requested
    /\ UNCHANGED <<now, chunks, slock, pullFrame, r_groups, r_snaps, delete,
                   new_groups, pl_pc, pl_group, pl_slist, last_sync,
                   remote_snapshots, pl_dlist, pl_inserted, pl_downloaded,
                   pl_result>>

pull_store_delete_done ==
    /\ pl_pc = "delgroups"
    /\ pl_list = <<>>
    /\ pl_pc' = "done"
    /\ UNCHANGED <<pl_outcome, pl_changed>>
    /\ UNCHANGED pl_requested
    /\ UNCHANGED <<now, chunks, slock, pullFrame, r_groups, r_snaps, owner,
                   t_snaps, delete, errors, new_groups, pl_list, pl_group,
                   pl_slist, last_sync, remote_snapshots, pl_dlist,
                   pl_inserted, pl_downloaded, pl_removed, pl_removed_groups,
                   pl_result>>

\* pull_store returns: "sync failed with some errors" if errors is set; the
\* shared lock is dropped.
pull_store_return ==
    /\ pl_pc = "done"
    /\ pl_pc' = "idle"
    /\ pl_result' = IF errors THEN "err" ELSE "ok"
    /\ slock' = [slock EXCEPT ![PullProc] = FALSE]
    /\ pl_outcome' = NoOutcome
    /\ pl_changed' = {}
    /\ UNCHANGED pl_requested
    /\ UNCHANGED <<now, chunks, pullFrame, r_groups, r_snaps, owner, t_snaps,
                   delete, errors, new_groups, pl_list, pl_group, pl_slist,
                   last_sync, remote_snapshots, pl_dlist, pl_inserted,
                   pl_downloaded, pl_removed, pl_removed_groups>>

pullOthers == <<insVars, upVars, accVars, bwVars, pqVars,
                psVars, stVars, miscVars>>

PullNext ==
    \/ (\E del \in BOOLEAN, ok \in BOOLEAN : pull_store_start(del, ok))
          /\ UNCHANGED pullOthers
    \/ (\E created \in BOOLEAN, ok \in BOOLEAN : pull_store_group(created, ok))
          /\ UNCHANGED pullOthers
    \/ (\E ok \in BOOLEAN : pull_group_snapshot(ok)) /\ UNCHANGED pullOthers
    \/ pull_group_list_done /\ UNCHANGED pullOthers
    \/ (\E ok \in BOOLEAN : pull_group_delete(ok)) /\ UNCHANGED pullOthers
    \/ pull_group_return /\ UNCHANGED pullOthers
    \/ pull_store_groups_done /\ UNCHANGED pullOthers
    \/ (\E ok \in BOOLEAN : pull_store_delete_group(ok))
          /\ UNCHANGED pullOthers
    \/ pull_store_delete_done /\ UNCHANGED pullOthers
    \/ pull_store_return /\ UNCHANGED pullOthers

\* The chunks of the target at the start: those of its synced snapshots.
PullChunks ==
    LET have == {RemoteDigest(p[1], p[2]) :
                   p \in {q \in Groups \X BackupTimes :
                              t_snaps[q[1]][q[2]] = "synced"}}
    IN [d \in Digests |->
           IF d \in have
           THEN [present |-> TRUE, atime |-> 0, ctime |-> 0, data |-> BlobOf(d)]
           ELSE NoChunk]

\* Any remote and any target: a group directory has an owner, a snapshot
\* directory is in a group directory, a synced snapshot is one of the remote.
PullInit ==
    /\ r_groups \in SUBSET Groups
    /\ r_snaps \in [Groups -> SUBSET BackupTimes]
    /\ \A g \in Groups \ r_groups : r_snaps[g] = {}
    /\ owner \in [Groups -> {"none", "me", "other"}]
    /\ t_snaps \in [Groups -> [BackupTimes ->
                                 {"absent", "partial", "synced", "local"}]]
    /\ \A g \in Groups, t \in BackupTimes :
          /\ owner[g] = "none" => t_snaps[g][t] = "absent"
          /\ t_snaps[g][t] = "synced" => t \in r_snaps[g]
    /\ chunks = PullChunks
    /\ pl_pc = "idle"
    /\ delete = FALSE
    /\ errors = FALSE
    /\ new_groups = {}
    /\ pl_list = <<>>
    /\ pl_group = 0
    /\ pl_slist = <<>>
    /\ last_sync = 0
    /\ remote_snapshots = {}
    /\ pl_dlist = <<>>
    /\ pl_inserted = 0
    /\ pl_downloaded = 0
    /\ pl_removed = {}
    /\ pl_removed_groups = {}
    /\ pl_result = "none"
    /\ pl_requested = FALSE
    /\ pl_outcome = NoOutcome
    /\ pl_changed = {}

\* The datastore part but for the chunk files while a garbage collection of
\* the target store is in its mark phase and holds the exclusive lock.
GcMarkingInit ==
    /\ now = 0
    /\ snapshots = {}
    /\ index = [s \in Snaps |-> <<>>]
    /\ wstate = [w \in Writers |-> "idle"]
    /\ slock = [p \in Syncs |-> FALSE]
    /\ wrec = [w \in Writers |-> NoRec]
    /\ windex = [w \in Writers |-> <<>>]
    /\ wnew = [w \in Writers |-> {}]
    /\ gc_mutex = 1
    /\ exclusive = 1
    /\ gcpc = [g \in GcCallers |-> IF g = 1 THEN "mark" ELSE "idle"]
    /\ gcerr = [g \in GcCallers |-> "none"]
    /\ gc_oldest = 0
    /\ gc_start = 0
    /\ gc_list = <<>>
    /\ gc_cur = <<>>
    /\ gc_conc = FALSE
    /\ gc_removed = {}
    /\ last_gc_status = 0

InitPull ==
    /\ GcRestInit \/ GcMarkingInit
    /\ InsIdle /\ PullInit /\ UpIdle /\ AccIdle /\ WriterIdle
    /\ SnapIdle /\ ServerIdle /\ MiscIdle
    /\ ParseIdle

SpecPull == InitPull /\ [][PullNext]_vars


\* C7: a pull_store run that follows a successful run inserts no chunk and
\* downloads no archive.
C7_SecondPullTransfersNothing ==
    (pl_pc # "idle" /\ pl_result = "ok")
        => (pl_inserted = 0 /\ pl_downloaded = 0)

\* pull_store has finished with delete = true and without errors.
PullDeleteDone == pl_pc = "done" /\ delete /\ ~errors

\* C10: the deletion step removes no snapshot and no group that is on the
\* remote; when pull_store finishes with delete = true and without errors,
\* every snapshot left in a group of the remote is a snapshot of the remote
\* and no other group is left; with an empty remote nothing is left.
C10_DeleteVanished ==
    /\ \A p \in pl_removed : ~(p[1] \in r_groups /\ p[2] \in r_snaps[p[1]])
    /\ \A g \in pl_removed_groups : g \notin r_groups
    /\ PullDeleteDone
          => /\ \A g \in r_groups : list_backups(g) \subseteq r_snaps[g]
             /\ list_groups \subseteq r_groups
             /\ \A g \in Groups \ r_groups : list_backups(g) = {}
    /\ (PullDeleteDone /\ r_groups = {})
          => \A g \in Groups : owner[g] = "none" /\ list_backups(g) = {}

\* A run with delete = true has finished without errors: it removed a
\* vanished snapshot of a group of the remote and a vanished group, and a
\* snapshot of the remote is on the target.
C10_Witness ==
    /\ PullDeleteDone
    /\ \E p \in pl_removed : p[1] \in r_groups
    /\ pl_removed_groups # {}
    /\ \E g \in r_groups : \E t \in r_snaps[g] : t_snaps[g][t] = "synced"


\* C11: a step of a pull_store run with delete = false removes no snapshot
\* directory and no group directory of the target; with an empty remote it
\* leaves the groups and snapshots of the target as they are.
C11_NoDeleteKeepsTarget ==
    [][~delete'
          => /\ \A g \in Groups : owner[g] # "none" => owner'[g] # "none"
             /\ \A g \in Groups, t \in BackupTimes :
                    t_snaps[g][t] # "absent" => t_snaps'[g][t] # "absent"
             /\ r_groups = {} => (owner' = owner /\ t_snaps' = t_snaps)]_vars

\* A run with delete = false has ended after downloading an archive; a
\* group and a snapshot that are not on the remote are still on the target.
C11_Witness ==
    /\ pl_pc = "done"
    /\ ~delete
    /\ pl_downloaded > 0
    /\ \E g \in Groups \ r_groups : list_backups(g) # {}
    /\ \E g \in r_groups : list_backups(g) \ r_snaps[g] # {}


\* upload_stream has returned.
UploadReturned == up_pc \in {"closed", "failed"}

\* C12: {prefix}_close is sent at most once, and only when the input stream
\* has ended and every chunk upload and every index registration has been
\* answered with success; once a pipelined request has failed close is never
\* sent and upload_stream returns an error; upload_stream always returns.
C12_CloseAfterAll ==
    /\ [](/\ up_closes <= 1
          /\ up_closes = 1
                => /\ up_pos = Len(up_input)
                   /\ up_res = "ok"
                   /\ cq_st = "done"
                   /\ Range(up_post_off) \subseteq up_acked
                   /\ up_put_acked = up_puts
                   /\ Len(up_index) = Len(up_input)
          /\ up_failed => up_closes = 0)
    /\ (up_failed ~> up_pc = "failed")
    /\ <>UploadReturned

\* An upload was closed after a chunk upload and two index registrations.
C12_Witness ==
    /\ up_pc = "closed"
    /\ up_posted # <<>>
    /\ up_puts >= 2
    /\ up_put_acked = up_puts


RECURSIVE StreamOffset(_)
\* The sum of the lengths of the first n chunks of the input stream.
StreamOffset(n) ==
    IF n = 0 THEN 0 ELSE StreamOffset(n - 1) + ChunkLen(up_input[n])

\* C13: the pairs registered by the PUT {prefix}_index requests, in request
\* order, are the chunks of the input stream in stream order, each with the
\* sum of the lengths of the chunks before it as offset: a prefix of them at
\* any time, all of them when the upload is closed; offsets grow strictly.
C13_IndexInStreamOrder ==
    /\ Len(up_index) <= up_pos
    /\ \A i \in DOMAIN up_index :
          up_index[i] = <<StreamOffset(i - 1), up_input[i]>>
    /\ \A i, j \in DOMAIN up_index : i < j => up_index[i][1] < up_index[j][1]
    /\ up_pc = "closed" => Len(up_index) = Len(up_input)

\* An upload of known and new chunks was closed after several index
\* registrations.
C13_Witness ==
    /\ up_pc = "closed"
    /\ Len(up_index) = MaxStreamLen
    /\ up_puts >= 2
    /\ up_posted # <<>>
    /\ Len(up_posted) < Len(up_input)

-----------------------------------------------------------------------------
(***************************************************************************)
(* The life of a BackupWriter and of its H2 session (SpecWriter).          *)
(***************************************************************************)

\* The session is aborted by cause src; the archives not yet closed, and
\* all of them if finish has not been sent, are lost.
Abort(src) ==
    /\ bw_aborted' = TRUE
    /\ bw_abort_src' = IF bw_aborted THEN bw_abort_src ELSE src
    /\ bw_lost' = IF bw_aborted THEN bw_lost
                  ELSE IF bw_fin = "none" THEN Archives
                  ELSE {a \in Archives :
                           srv_arch[a] \notin {"closed", "published"}}

NoAbort == UNCHANGED <<bw_aborted, bw_abort_src, bw_lost>>

\* impl Drop for BackupWriter: the session is aborted when the last
\* reference goes away.
drop_aborts_never(refs_left) == FALSE

drop_aborts(refs_left) == refs_left = 0

\* BackupWriter::start: the H2 session is opened.
bw_start(ok) ==
    /\ bw_refs = 0
    /\ ~bw_started
    /\ ok
    /\ bw_started' = TRUE
    /\ bw_refs' = 1
    /\ srv_session' = "open"
    /\ NoAbort
    /\ UNCHANGED <<bw_fin, srv_arch>>

\* Arc<BackupWriter> is cloned.
bw_clone ==
    /\ bw_refs > 0
    /\ bw_refs < MaxRefs
    /\ bw_refs' = bw_refs + 1
    /\ NoAbort
    /\ UNCHANGED <<bw_started, bw_fin, srv_session, srv_arch>>

\* A holder other than a running finish drops its Arc<BackupWriter>.
bw_drop ==
    /\ bw_refs > (IF bw_fin \in {"sent", "acked", "error"} THEN 1 ELSE 0)
    /\ bw_refs' = bw_refs - 1
    /\ IF drop_aborts(bw_refs') THEN Abort("drop") ELSE NoAbort
    /\ UNCHANGED <<bw_started, bw_fin, srv_session, srv_arch>>

\* BackupWriter::cancel
bw_cancel ==
    /\ bw_refs > 0
    /\ ~bw_aborted
    /\ Abort("cancel")
    /\ UNCHANGED <<bw_started, bw_refs, bw_fin, srv_session, srv_arch>>

\* upload_stream opens an archive at the server (POST {prefix}_index).
bw_archive_open(a) ==
    /\ bw_refs > 0
    /\ ~bw_aborted
    /\ bw_fin = "none"
    /\ srv_session = "open"
    /\ srv_arch[a] = "none"
    /\ srv_arch' = [srv_arch EXCEPT ![a] = "open"]
    /\ NoAbort
    /\ UNCHANGED <<bw_started, bw_refs, bw_fin, srv_session>>

\* upload_stream closes an archive at the server (POST {prefix}_close).
bw_archive_close(a) ==
    /\ bw_refs > 0
    /\ ~bw_aborted
    /\ bw_fin = "none"
    /\ srv_session = "open"
    /\ srv_arch[a] = "open"
    /\ srv_arch' = [srv_arch EXCEPT ![a] = "closed"]
    /\ NoAbort
    /\ UNCHANGED <<bw_started, bw_refs, bw_fin, srv_session>>

\* BackupWriter::finish is called: the finish request is sent.
bw_finish ==
    /\ bw_refs > 0
    /\ ~bw_aborted
    /\ bw_fin = "none"
    /\ bw_fin' = "sent"
    /\ NoAbort
    /\ UNCHANGED <<bw_started, bw_refs, srv_session, srv_arch>>

\* The server handles the finish request: it publishes the closed archives
\* of the session and acknowledges, or answers with an error.
srv_finish(ok) ==
    /\ bw_fin = "sent"
    /\ srv_session = "open"
    /\ IF ok
       THEN /\ bw_fin' = "acked"
            /\ srv_session' = "finished"
            /\ srv_arch' = [a \in Archives |->
                              IF srv_arch[a] = "closed" THEN "published"
                              ELSE srv_arch[a]]
       ELSE /\ bw_fin' = "error"
            /\ UNCHANGED <<srv_session, srv_arch>>
    /\ NoAbort
    /\ UNCHANGED <<bw_started, bw_refs>>

\* The server observes the abort of a session it has not finished: what the
\* session wrote is discarded; a finish request still on its way fails.
srv_abort ==
    /\ bw_aborted
    /\ srv_session = "open"
    /\ srv_session' = "aborted"
    /\ srv_arch' = [a \in Archives |->
                      IF srv_arch[a] = "none" THEN "none" ELSE "discarded"]
    /\ bw_fin' = IF bw_fin = "sent" THEN "error" ELSE bw_fin
    /\ NoAbort
    /\ UNCHANGED <<bw_started, bw_refs>>

\* finish returns: after the acknowledgement the map_ok closure aborts the
\* session; then its Arc<BackupWriter> is dropped.
bw_finish_return ==
    /\ bw_fin \in {"acked", "error"}
    /\ bw_refs' = bw_refs - 1
    /\ bw_fin' = IF bw_fin = "acked" THEN "ok" ELSE "failed"
    /\ IF bw_fin = "acked" THEN Abort("finish")
       ELSE IF drop_aborts(bw_refs') THEN Abort("drop")
       ELSE NoAbort
    /\ UNCHANGED <<bw_started, srv_session, srv_arch>>

bwOthers == <<gcVars, insVars, pullVars, upVars, accVars, pqVars,
              psVars, stVars, miscVars>>

WriterNext ==
    \/ (\E ok \in BOOLEAN : bw_start(ok)) /\ UNCHANGED bwOthers
    \/ bw_clone /\ UNCHANGED bwOthers
    \/ bw_drop /\ UNCHANGED bwOthers
    \/ bw_cancel /\ UNCHANGED bwOthers
    \/ (\E a \in Archives : bw_archive_open(a)) /\ UNCHANGED bwOthers
    \/ (\E a \in Archives : bw_archive_close(a)) /\ UNCHANGED bwOthers
    \/ bw_finish /\ UNCHANGED bwOthers
    \/ (\E ok \in BOOLEAN : srv_finish(ok)) /\ UNCHANGED bwOthers
    \/ srv_abort /\ UNCHANGED bwOthers
    \/ bw_finish_return /\ UNCHANGED bwOthers

SpecWriter == Init /\ [][WriterNext]_vars

\* C14: a BackupWriter that has ceased to exist has its session aborted; an
\* archive of a session aborted before the archive was closed, or before
\* finish was sent, is never published; the abort made by finish itself
\* comes after the server acknowledged the finish request.
C14_AbortOnDrop ==
    /\ (bw_started /\ bw_refs = 0) => bw_aborted
    /\ \A a \in bw_lost : srv_arch[a] # "published"
    /\ bw_abort_src = "finish" => (bw_fin = "ok" /\ srv_session = "finished")

\* A writer with an open and a closed archive was dropped without finish:
\* the session is aborted and the server has discarded both.
C14_Witness ==
    /\ bw_started
    /\ bw_refs = 0
    /\ bw_fin = "none"
    /\ bw_abort_src = "drop"
    /\ srv_session = "aborted"
    /\ \A a \in Archives : srv_arch[a] = "discarded"

-----------------------------------------------------------------------------
(***************************************************************************)
(* Failures of garbage_collection (Spec).                                  *)
(***************************************************************************)

Present(store) == {d \in Digests : store[d].present}

\* The next step of the mark phase of g cannot succeed: the chunk to touch
\* is missing, or the image to open is gone.
MarkFails(g) ==
    /\ gcpc[g] = "mark"
    /\ \/ gc_cur # <<>> /\ ~chunks[Head(gc_cur)].present
       \/ gc_cur = <<>> /\ gc_list # <<>> /\ Head(gc_list) \notin snapshots

MarkStep(g) ==
    /\ gcpc[g] = "mark"
    /\ <<gcpc[g], gc_cur, gc_list>>' # <<gcpc[g], gc_cur, gc_list>>

\* C15: when a step of the mark phase fails, garbage_collection returns that
\* error, the sweep phase is not entered and the run removes no chunk.
C15_MarkFailureNoSweep ==
    /\ [][\A g \in GcCallers :
             /\ (MarkFails(g) /\ MarkStep(g))
                   => /\ gcpc'[g] = "failed"
                      /\ gcerr'[g] \in {"chunk missing", "open index"}
                      /\ chunks' = chunks
             /\ (gcpc[g] = "failed" /\ gcpc'[g] # "failed")
                   => gcpc'[g] = "idle" /\ Present(chunks') = Present(chunks)
             /\ gcpc'[g] = "sweep"
                   => gcpc[g] \in {"mark", "sweep"} /\ ~MarkFails(g)]_vars
    /\ [](\A g \in GcCallers :
             (gcpc[g] = "failed"
                 /\ gcerr[g] \in {"chunk missing", "open index"})
                => gc_removed = {} /\ gc_mutex = 0 /\ exclusive = 0)

\* A run failed in its mark phase; an unreferenced chunk old enough for the
\* sweep is still there.
C15_Witness ==
    \E g \in GcCallers :
        /\ gcpc[g] = "failed"
        /\ gcerr[g] \in {"chunk missing", "open index"}
        /\ \E d \in Digests : chunks[d].present /\ d \notin Referenced
                                 /\ chunks[d].atime < Cutoff

-----------------------------------------------------------------------------
(***************************************************************************)
(* The shared lock and the failures of pull_store (SpecPull).              *)
(***************************************************************************)

\* The target of the sync: group directories, snapshots, chunk files.
PullTarget == <<owner, t_snaps, chunks>>

\* C17: pull_store holds the shared chunk-store lock from before its first
\* remote request and its first change of the target until it returns; if
\* the lock cannot be taken it fails at once, with no request sent and the
\* target as it was.
C17_SharedLockHeld ==
    /\ [](pl_pc # "idle" <=> slock[PullProc])
    /\ [][(pl_pc = "idle" /\ exclusive # 0)
             => /\ pl_pc' = "idle"
                /\ pl_result' = "err"
                /\ ~pl_requested'
                /\ PullTarget' = PullTarget
                /\ slock' = slock]_vars
    /\ [][(PullTarget' # PullTarget \/ pl_downloaded' > pl_downloaded)
             => slock[PullProc] /\ slock'[PullProc]]_vars
    /\ [][(pl_requested' /\ pl_pc = "idle") => exclusive = 0]_vars

\* pull_store was called while the exclusive lock was held and has failed;
\* there was something to pull and something to lose.
C17_Witness ==
    /\ exclusive # 0
    /\ pl_pc = "idle"
    /\ pl_result = "err"
    /\ ~pl_requested
    /\ delete
    /\ \E g \in r_groups : r_snaps[g] \ list_backups(g) # {}
    /\ \E g \in Groups \ r_groups : list_backups(g) # {}


\* The turn of a group in the loop of pull_store ended with a soft error.
SoftFailed(g) == pl_outcome[g] \in {"owner", "pull"}

\* C18: a group whose owner on the target is not the caller is not pulled
\* and none of its snapshots is created or removed; after that group, and
\* after a group whose pull_group failed, the loop goes on with the groups
\* that are left, and pull_store ends with an error.
C18_SoftGroupErrors ==
    /\ [](\A g \in Groups :
             /\ owner[g] # "me" => pl_group # g
             /\ pl_outcome[g] = "owner" => g \notin pl_changed
             /\ SoftFailed(g) => errors)
    /\ [](pl_pc \in {"delgroups", "done"}
             => \/ \E g \in Groups : pl_outcome[g] = "create"
                \/ \A g \in new_groups : pl_outcome[g] # "none")
    /\ [][\A g \in Groups :
             (pl_outcome[g] = "none" /\ pl_outcome'[g] \in {"owner", "pull"})
                => /\ pl_pc' = "groups"
                   /\ Range(pl_list')
                         = {h \in new_groups : pl_outcome'[h] = "none"}]_vars
    /\ [][(pl_pc = "done" /\ pl_pc' = "idle" /\ \E g \in Groups : SoftFailed(g))
             => pl_result' = "err"]_vars

\* A group owned by someone else was passed over with its snapshots as they
\* were, and the next group of the list is being pulled.
C18_Witness ==
    \E g1 \in Groups, g2 \in Groups :
        /\ pl_outcome[g1] = "owner"
        /\ list_backups(g1) # {}
        /\ r_snaps[g1] \ list_backups(g1) # {}
        /\ pl_pc = "snaps"
        /\ pl_group = g2
        /\ g2 \in pl_changed
        /\ errors

\* C18 as stated: of a group passed over for its owner, and of a group whose
\* pull_group failed, no snapshot was created or changed.
C18_FailedGroupUntouched ==
    \A g \in Groups : SoftFailed(g) => g \notin pl_changed

-----------------------------------------------------------------------------
(***************************************************************************)
(* parse_parameter_strings (SpecParse): the parameters of a request, as    *)
(* the list of (key, value) pairs the query string decodes to, are checked *)
(* against an object schema. A JSON value is a pair <<tag, content>>.      *)
(***************************************************************************)

JNull == <<"null", "">>

ParseError == <<"err", "">>

\* parse_boolean
parse_boolean(value_str) ==
    IF value_str \in {"1", "on", "yes", "true"} THEN <<"bool", "true">>
    ELSE IF value_str \in {"0", "off", "no", "false"} THEN <<"bool", "false">>
    ELSE ParseError

\* parse_simple_value for the schemas without limits: a boolean, an integer
\* (the values of the model that parse as isize), a string.
parse_simple_value(value_str, type) ==
    IF type = "Boolean" THEN parse_boolean(value_str)
    ELSE IF type = "Integer"
    THEN IF value_str \in {"0", "1"} THEN <<"number", value_str>>
         ELSE ParseError
    ELSE IF type = "String" THEN <<"string", value_str>>
    ELSE ParseError

\* The test of a property after the loop: it is missing and not optional.
required_missing_never(optional, value) == FALSE

required_missing(optional, value) == ~optional /\ value = JNull

\* params[key] is free for the value of a non-array property.
param_unset(value) == value = JNull

\* ObjectSchema.properties.get(key): None for a key it does not define.
NoProperty == [defined |-> FALSE, optional |-> TRUE, type |-> "String"]

Properties ==
    {NoProperty} \cup [defined : {TRUE}, optional : BOOLEAN,
                       type : {"Boolean", "Integer", "String", "Array"}]

\* parse_parameter_strings, one turn of the loop over data.
parse_parameter_string ==
    /\ pq_pc = "loop"
    /\ pq_pos < Len(pq_data)
    /\ pq_pos' = pq_pos + 1
    /\ LET key == pq_data[pq_pos + 1][1]
           value == pq_data[pq_pos + 1][2]
           prop == pq_schema[key]
           old == pq_params[key]
       IN IF prop.defined
          THEN IF prop.type = "Array"
               THEN LET res == parse_simple_value(value, "Integer")
                        array == IF old = JNull THEN <<>> ELSE old[2]
                    IN IF res # ParseError
                       THEN /\ pq_params' = [pq_params EXCEPT ![key] =
                                               <<"array", Append(array, res)>>]
                            /\ UNCHANGED pq_errors
                       ELSE /\ pq_params' = [pq_params EXCEPT ![key] =
                                               <<"array", array>>]
                            /\ pq_errors' = Append(pq_errors, "parse")
               ELSE LET res == parse_simple_value(value, prop.type)
                    IN IF res = ParseError
                       THEN /\ pq_errors' = Append(pq_errors, "parse")
                            /\ UNCHANGED pq_params
                       ELSE IF param_unset(old)
                       THEN /\ pq_params' = [pq_params EXCEPT ![key] = res]
                            /\ UNCHANGED pq_errors
                       ELSE /\ pq_errors' = Append(pq_errors, "duplicate")
                            /\ UNCHANGED pq_params
          ELSE IF pq_schema_additional
          THEN /\ pq_params' = [pq_params EXCEPT ![key] =
                     IF old = JNull THEN <<"string", value>>
                     ELSE IF old[1] = "string"
                     THEN <<"array", <<old, <<"string", value>> >> >>
                     ELSE <<"array", Append(old[2], <<"string", value>>)>>]
               /\ UNCHANGED pq_errors
          ELSE /\ pq_errors' = Append(pq_errors, "additional")
               /\ UNCHANGED pq_params
    /\ UNCHANGED <<pq_pc, pq_data, pq_schema, pq_schema_additional,
                   pq_test_required, pq_result>>

RECURSIVE MissingErrors(_)
\* One error for each property of the set that is missing and not optional.
MissingErrors(keys) ==
    IF keys = {} THEN <<>>
    ELSE LET k == CHOOSE x \in keys : TRUE
         IN (IF pq_schema[k].defined
                  /\ required_missing(pq_schema[k].optional, pq_params[k])
             THEN <<"missing">> ELSE <<>>) \o MissingErrors(keys \ {k})

\* parse_parameter_strings after the loop: the test of the required
\* properties, and the result.
parse_parameter_return ==
    /\ pq_pc = "loop"
    /\ pq_pos = Len(pq_data)
    /\ pq_errors' = IF pq_test_required /\ Len(pq_errors) = 0
                    THEN MissingErrors(ParamKeys)
                    ELSE pq_errors
    /\ pq_result' = IF Len(pq_errors') > 0 THEN "err" ELSE "ok"
    /\ pq_pc' = "done"
    /\ UNCHANGED <<pq_pos, pq_data, pq_schema, pq_schema_additional,
                   pq_test_required, pq_params>>

pqOthers == <<gcVars, insVars, pullVars, upVars, accVars, bwVars,
              psVars, stVars, miscVars>>

ParseNext ==
    \/ parse_parameter_string /\ UNCHANGED pqOthers
    \/ parse_parameter_return /\ UNCHANGED pqOthers

\* Any schema over the keys, any list of pairs up to MaxParams.
ParseInit ==
    /\ pq_pc = "loop"
    /\ pq_schema \in [ParamKeys -> Properties]
    /\ pq_schema_additional \in BOOLEAN
    /\ pq_test_required \in BOOLEAN
    /\ pq_data \in UNION {[1..n -> ParamKeys \X ParamValues] :
                               n \in 0..MaxParams}
    /\ pq_pos = 0
    /\ pq_params = [k \in ParamKeys |-> JNull]
    /\ pq_errors = <<>>
    /\ pq_result = "none"

InitParse ==
    /\ GcInit /\ InsIdle /\ PullIdle /\ UpIdle /\ AccIdle /\ WriterIdle
    /\ SnapIdle /\ ServerIdle /\ MiscIdle
    /\ ParseInit

SpecParse == InitParse /\ [][ParseNext]_vars

\* The keys of the input, and how often and how well each is given.
Given(k) == {i \in DOMAIN pq_data : pq_data[i][1] = k}

ValidFor(i) ==
    LET p == pq_schema[pq_data[i][1]]
    IN parse_simple_value(pq_data[i][2],
           IF p.type = "Array" THEN "Integer" ELSE p.type) # ParseError

Scalar(k) == pq_schema[k].defined /\ pq_schema[k].type # "Array"

\* C19: with test_required a missing required property is an error, and the
\* absence of optional properties alone is none; a key the schema does not
\* define is an error unless additional properties are allowed; a non-array
\* property given twice is an error, the duplicate error if both values
\* are valid.
C19_ParameterErrors ==
    pq_pc = "done" =>
        /\ (pq_test_required
              /\ \E k \in ParamKeys : /\ pq_schema[k].defined
                                      /\ ~pq_schema[k].optional
                                      /\ Given(k) = {})
               => pq_result = "err"
        /\ (/\ pq_test_required
            /\ \A k \in ParamKeys :
                  /\ (pq_schema[k].defined /\ ~pq_schema[k].optional)
                        => Given(k) # {}
                  /\ Given(k) # {} => pq_schema[k].defined
                  /\ Scalar(k) => Cardinality(Given(k)) <= 1
            /\ \A i \in DOMAIN pq_data : ValidFor(i))
               => pq_result = "ok"
        /\ (~pq_schema_additional
              /\ \E k \in ParamKeys : ~pq_schema[k].defined /\ Given(k) # {})
               => pq_result = "err"
        /\ \A k \in ParamKeys :
              (Scalar(k) /\ Cardinality(Given(k)) >= 2)
                 => /\ pq_result = "err"
                    /\ (\A i \in Given(k) : ValidFor(i))
                          => "duplicate" \in Range(pq_errors)

\* A valid optional parameter was given and a required one was not: the
\* only error is the missing parameter.
C19_Witness ==
    /\ pq_pc = "done"
    /\ pq_test_required
    /\ pq_result = "err"
    /\ pq_errors = <<"missing">>
    /\ pq_data # <<>>
    /\ \E k \in ParamKeys : pq_schema[k].defined /\ pq_schema[k].optional
                               /\ pq_params[k] # JNull

-----------------------------------------------------------------------------
\* The order of chunk uploads and index registrations (SpecUpload).

\* C20: a PUT {prefix}_index request that registers a chunk uploaded in this
\* stream, or any chunk after it in the stream, is sent only after the
\* successful response to the upload of that chunk has been received.
C20_IndexAfterChunkAck ==
    \A i \in DOMAIN up_index :
        \A o \in Range(up_post_off) : o <= up_index[i][1] => o \in up_acked

\* While the stream is still being read, a registration has been sent that
\* holds an uploaded chunk and a known chunk behind it.
C20_Witness ==
    /\ up_pc = "stream"
    /\ \E i \in DOMAIN up_index, j \in DOMAIN up_index :
          /\ i < j
          /\ up_index[i][1] \in Range(up_post_off)
          /\ up_index[j][1] \notin Range(up_post_off)


-----------------------------------------------------------------------------
\* The chunk uploads in flight (SpecUpload).

\* A response future of a chunk upload is held by the item.
Holds(item) == IF item.resp THEN 1 ELSE 0

RECURSIVE HeldIn(_)
HeldIn(chan) ==
    IF chan = <<>> THEN 0 ELSE Holds(Head(chan)) + HeldIn(Tail(chan))

\* The chunk uploads sent whose response the task of append_chunk_queue has
\* not consumed: their response futures are in the channel, with the main
\* task on their way into it, or with the queue task.
InFlight == HeldIn(up_chan) + Holds(up_pend) + Holds(cq_item)

RECURSIVE ByteAt(_, _)
\* The byte of weight 256^(i-1) of a value.
ByteAt(v, i) == IF i = 1 THEN v % 256 ELSE ByteAt(v \div 256, i - 1)

\* The 8 bytes of an offset, least significant first.
LittleEndian(v) == [i \in 1..8 |-> ByteAt(v, i)]

RECURSIVE IndexCsum(_)
\* The bytes hashed for the first n chunks of the input stream: per chunk
\* the end offset (dynamic archives only) and the digest.
IndexCsum(n) ==
    IF n = 0 THEN <<>>
    ELSE IndexCsum(n - 1)
         \o (IF up_fixed THEN <<>> ELSE LittleEndian(StreamOffset(n)))
         \o DigestBytes(up_input[n])

\* C23: the csum sent in {prefix}_close is the hash over all chunks of the
\* stream in stream order, known and new alike, of the 8-byte little-endian
\* end offset (dynamic archive) followed by the 32-byte digest, or of the
\* digest only (fixed archive); chunk-count is the number of chunks and size
\* the sum of their lengths.
C23_CloseChecksum ==
    /\ up_csum = IndexCsum(up_pos)
    /\ up_closes = 1 =>
          /\ up_close_param.csum = IndexCsum(Len(up_input))
          /\ up_close_param.chunk_count = Len(up_input)
          /\ up_close_param.size = StreamOffset(Len(up_input))

\* A dynamic archive of a known and a new chunk has been closed.
C23_Witness ==
    /\ up_pc = "closed"
    /\ ~up_fixed
    /\ up_close_param.chunk_count >= 2
    /\ \E i, j \in 1..Len(up_input) :
          /\ up_input[i] \in up_prev
          /\ up_input[j] \notin up_prev
    /\ Len(up_close_param.csum) =
          up_close_param.chunk_count * (OffsetSize + DigestSize)

(***************************************************************************)
(* The order of the requests of upload_stream.                             *)
(***************************************************************************)

\* The place of a request in the sequence of an archive upload.
RequestRank(req) ==
    CASE req = "GET index" -> 1
      [] req = "POST index" -> 2
      [] req \in {"POST chunk", "PUT index"} -> 3
      [] req = "POST close" -> 4

\* The requests of one kind sent so far.
Sent(req) == {i \in 1..Len(up_requests) : up_requests[i] = req}

\* C24: upload_stream sends GET {prefix}_index, then POST {prefix}_index,
\* then chunk uploads and index registrations, then POST {prefix}_close; no
\* chunk upload or registration is sent before the wid is obtained or after
\* close, and when the known-chunk download or the index POST fails no chunk
\* is sent.
C24_RequestOrder ==
    /\ \A i, j \in 1..Len(up_requests) :
          i < j => RequestRank(up_requests[i]) <= RequestRank(up_requests[j])
    /\ Sent("GET index") \subseteq {1}
    /\ Sent("POST index") \subseteq {2}
    /\ Cardinality(Sent("POST close")) <= 1
    /\ \A i \in 1..Len(up_requests) :
          RequestRank(up_requests[i]) >= 3 =>
             /\ Sent("GET index") = {1}
             /\ Sent("POST index") = {2}
             /\ up_error \notin {"download", "index"}
    /\ up_error \in {"download", "index"} =>
          /\ up_posted = <<>>
          /\ up_puts = 0
          /\ up_closes = 0
          /\ up_pc = "failed"
    /\ Cardinality(Sent("POST chunk")) = Len(up_posted)
    /\ Cardinality(Sent("PUT index")) = up_puts
    /\ Cardinality(Sent("POST close")) = up_closes

\* An archive with chunk uploads and index registrations has been closed.
C24_Witness ==
    /\ up_pc = "closed"
    /\ Cardinality(Sent("POST chunk")) >= 2
    /\ Cardinality(Sent("PUT index")) >= 2
    /\ up_requests[Len(up_requests)] = "POST close"

(***************************************************************************)
(* pull_snapshot (src/client/pull.rs): the remote manifest is downloaded   *)
(* under a tmp name, every file it lists is verified or pulled, then the   *)
(* manifest is renamed over the local one.                                 *)
(***************************************************************************)

\* archive_type: the kind of a file, taken from its name.
archive_type(a) == IF a % 2 = 1 THEN "DynamicIndex" ELSE "Blob"

RECURSIVE IndexData(_)
\* The index files of at most n entries, as the digests they list.
IndexData(n) ==
    IF n = 0 THEN {<<>>}
    ELSE LET S == IndexData(n - 1)
         IN S \cup {Append(x, d) : x \in {y \in S : Len(y) = n - 1},
                                   d \in Digests}

\* The data a file can hold: the entries of an index, the id of a blob.
FileData(a) ==
    IF archive_type(a) = "Blob" THEN {<<d>> : d \in Digests}
    ELSE IndexData(PullIndexLen)

\* The digests an archive of the remote manifest refers to.
IndexDigests(a) ==
    IF archive_type(a) = "Blob" THEN <<>> ELSE ps_remote[a]

\* pull_snapshot returns the error of a step.
SnapFails(step) ==
    /\ ps_pc' = "done"
    /\ ps_result' = "err"
    /\ ps_err' = step

\* download_manifest, DataBlob::load and verify_crc.
download_manifest(ok) ==
    /\ ps_pc = "start"
    /\ ps_tmp_manifest' = TRUE
    /\ IF ok
       THEN ps_pc' = "compare" /\ UNCHANGED <<ps_result, ps_err>>
       ELSE SnapFails("manifest")
    /\ UNCHANGED <<ps_remote, ps_manifest, ps_before, ps_present, ps_file,
                   ps_tmp, ps_store, ps_pos, ps_cpos, ps_fetched, ps_attempts,
                   ps_dir>>

\* manifest_blob.raw_data() == tmp_manifest_blob.raw_data()
same_manifest(local) == local = "new"

\* The local manifest, if there is one, is read and compared with the
\* downloaded one; then the downloaded one is parsed.
compare_manifest(ok) ==
    /\ ps_pc = "compare"
    /\ IF ~ok
       THEN SnapFails("manifest") /\ UNCHANGED ps_pos
       ELSE IF ps_manifest # "none" /\ same_manifest(ps_manifest)
            THEN /\ ps_pc' = "log_same"
                 /\ UNCHANGED <<ps_result, ps_err, ps_pos>>
            ELSE /\ ps_pc' = "item"
                 /\ ps_pos' = 1
                 /\ UNCHANGED <<ps_result, ps_err>>
    /\ UNCHANGED <<ps_remote, ps_manifest, ps_before, ps_tmp_manifest,
                   ps_present, ps_file, ps_tmp, ps_store, ps_cpos, ps_fetched,
                   ps_attempts, ps_dir>>

\* manifest.verify_file: any file passes.
verify_file_any(data, listed) == TRUE

\* manifest.verify_file: csum and size of the local file are those listed.
verify_file(data, listed) == data = listed

\* One item of manifest.files(): a file that exists and verifies is kept,
\* any other is pulled; a file that cannot be read is an error.
pull_snapshot_item(ok) ==
    /\ ps_pc = "item"
    /\ ps_pos <= NArchives
    /\ IF ps_pos \in ps_present
       THEN IF ~ok
            THEN SnapFails("verify") /\ UNCHANGED ps_pos
            ELSE IF verify_file(ps_file[ps_pos], ps_remote[ps_pos])
                 THEN /\ ps_pos' = ps_pos + 1
                      /\ UNCHANGED <<ps_pc, ps_result, ps_err>>
                 ELSE /\ ps_pc' = "download"
                      /\ UNCHANGED <<ps_result, ps_err, ps_pos>>
       ELSE /\ ok
            /\ ps_pc' = "download"
            /\ UNCHANGED <<ps_result, ps_err, ps_pos>>
    /\ UNCHANGED <<ps_remote, ps_manifest, ps_before, ps_tmp_manifest,
                   ps_present, ps_file, ps_tmp, ps_store, ps_cpos, ps_fetched,
                   ps_attempts, ps_dir>>

\* pull_single_archive: the file is downloaded under its tmp name and, if
\* it is an index, opened.
pull_single_archive(ok) ==
    /\ ps_pc = "download"
    /\ ps_tmp' = TRUE
    /\ IF ~ok
       THEN SnapFails("archive") /\ UNCHANGED ps_cpos
       ELSE /\ ps_pc' = IF archive_type(ps_pos) = "Blob" THEN "rename"
                        ELSE "chunks"
            /\ ps_cpos' = 1
            /\ UNCHANGED <<ps_result, ps_err>>
    /\ UNCHANGED <<ps_remote, ps_manifest, ps_before, ps_tmp_manifest,
                   ps_present, ps_file, ps_store, ps_pos, ps_fetched,
                   ps_attempts, ps_dir>>

\* chunk_exists: every chunk counts as present.
chunk_exists_always(store, digest) == TRUE

\* cond_touch_chunk(digest, false): whether the chunk is in the store.
chunk_exists(store, digest) == digest \in store

\* pull_index_chunks, one position: a chunk the store holds is skipped, a
\* missing one is to be fetched.
pull_index_chunks(ok) ==
    /\ ps_pc = "chunks"
    /\ ps_cpos <= Len(IndexDigests(ps_pos))
    /\ IF ~ok
       THEN SnapFails("archive") /\ UNCHANGED <<ps_cpos, ps_attempts>>
       ELSE IF chunk_exists(ps_store, IndexDigests(ps_pos)[ps_cpos])
            THEN /\ ps_cpos' = ps_cpos + 1
                 /\ UNCHANGED <<ps_pc, ps_result, ps_err, ps_attempts>>
            ELSE /\ ps_pc' = "fetch"
                 /\ ps_attempts' = 0
                 /\ UNCHANGED <<ps_result, ps_err, ps_cpos>>
    /\ UNCHANGED <<ps_remote, ps_manifest, ps_before, ps_tmp_manifest,
                   ps_present, ps_file, ps_tmp, ps_store, ps_pos, ps_fetched,
                   ps_dir>>

\* chunk_reader.read_raw_chunk(&digest).await?
read_raw_chunk(ok) ==
    /\ ps_pc = "fetch"
    /\ ps_fetched' = Append(ps_fetched, IndexDigests(ps_pos)[ps_cpos])
    /\ ps_attempts' = ps_attempts + 1
    /\ IF ok
       THEN ps_pc' = "insert" /\ UNCHANGED <<ps_result, ps_err>>
       ELSE SnapFails("chunk")
    /\ UNCHANGED <<ps_remote, ps_manifest, ps_before, ps_tmp_manifest,
                   ps_present, ps_file, ps_tmp, ps_store, ps_pos, ps_cpos,
                   ps_dir>>

\* target.insert_chunk(&chunk, &digest)?
pull_insert_chunk(ok) ==
    /\ ps_pc = "insert"
    /\ IF ok
       THEN /\ ps_store' = ps_store \cup {IndexDigests(ps_pos)[ps_cpos]}
            /\ ps_cpos' = ps_cpos + 1
            /\ ps_pc' = "chunks"
            /\ UNCHANGED <<ps_result, ps_err>>
       ELSE /\ SnapFails("chunk")
            /\ UNCHANGED <<ps_store, ps_cpos>>
    /\ UNCHANGED <<ps_remote, ps_manifest, ps_before, ps_tmp_manifest,
                   ps_present, ps_file, ps_tmp, ps_pos, ps_fetched,
                   ps_attempts, ps_dir>>

\* pull_index_chunks has been through the index.
pull_index_chunks_return ==
    /\ ps_pc = "chunks"
    /\ ps_cpos > Len(IndexDigests(ps_pos))
    /\ ps_pc' = "rename"
    /\ UNCHANGED <<ps_remote, ps_manifest, ps_before, ps_tmp_manifest,
                   ps_present, ps_file, ps_tmp, ps_store, ps_pos, ps_cpos,
                   ps_fetched, ps_attempts, ps_result, ps_err, ps_dir>>

\* pull_single_archive: std::fs::rename(&tmp_path, &path).
pull_single_archive_rename(ok) ==
    /\ ps_pc = "rename"
    /\ IF ok
       THEN /\ ps_file' = [ps_file EXCEPT ![ps_pos] = ps_remote[ps_pos]]
            /\ ps_present' = ps_present \cup {ps_pos}
            /\ ps_tmp' = FALSE
            /\ ps_pos' = ps_pos + 1
            /\ ps_pc' = "item"
            /\ UNCHANGED <<ps_result, ps_err>>
       ELSE /\ SnapFails("archive")
            /\ UNCHANGED <<ps_file, ps_present, ps_tmp, ps_pos>>
    /\ UNCHANGED <<ps_remote, ps_manifest, ps_before, ps_tmp_manifest,
                   ps_store, ps_cpos, ps_fetched, ps_attempts, ps_dir>>

\* After the last item: std::fs::rename(&tmp_manifest_name, &manifest_name).
pull_snapshot_rename(ok) ==
    /\ ps_pc = "item"
    /\ ps_pos > NArchives
    /\ IF ok
       THEN /\ ps_manifest' = "new"
            /\ ps_tmp_manifest' = FALSE
            /\ ps_pc' = "log"
            /\ UNCHANGED <<ps_result, ps_err>>
       ELSE /\ SnapFails("rename")
            /\ UNCHANGED <<ps_manifest, ps_tmp_manifest>>
    /\ UNCHANGED <<ps_remote, ps_before, ps_present, ps_file, ps_tmp,
                   ps_store, ps_pos, ps_cpos, ps_fetched, ps_attempts,
                   ps_dir>>

\* cleanup_backup_dir: of the other files only the client log is left.
cleanup_backup_dir(dir) == dir \cap {"client.log.blob"}

\* try_client_log_download: the log is downloaded under its tmp name and
\* renamed; a failed download is passed over and leaves the tmp file.
try_client_log_download(dir, got) ==
    IF got THEN dir \cup {"client.log.blob"}
    ELSE dir \cup {"client.log.tmp"}

\* The end of pull_snapshot on either way: try_client_log_download when
\* there is no client log yet; then, unless the manifest was unchanged,
\* cleanup_backup_dir.
pull_snapshot_return(ok, got) ==
    /\ ps_pc \in {"log", "log_same"}
    /\ LET logged == IF "client.log.blob" \in ps_dir THEN ps_dir
                     ELSE try_client_log_download(ps_dir, got)
       IN IF ~ok
          THEN /\ SnapFails("cleanup")
               /\ ps_dir' = logged
               /\ UNCHANGED ps_tmp
          ELSE IF ps_pc = "log_same"
          THEN /\ ps_pc' = "done"
               /\ ps_result' = "unchanged"
               /\ ps_dir' = logged
               /\ UNCHANGED <<ps_err, ps_tmp>>
          ELSE /\ ps_pc' = "done"
               /\ ps_result' = "ok"
               /\ ps_dir' = cleanup_backup_dir(logged)
               /\ ps_tmp' = FALSE
               /\ UNCHANGED ps_err
    /\ UNCHANGED <<ps_remote, ps_manifest, ps_before, ps_tmp_manifest,
                   ps_present, ps_file, ps_store, ps_pos, ps_cpos,
                   ps_fetched, ps_attempts>>

\* A backup writer of the target inserts a chunk while the sync runs.
other_insert_chunk(d) ==
    /\ ps_pc \in {"chunks", "fetch", "insert"}
    /\ d \notin ps_store
    /\ ps_store' = ps_store \cup {d}
    /\ UNCHANGED <<ps_pc, ps_remote, ps_manifest, ps_before, ps_tmp_manifest,
                   ps_present, ps_file, ps_tmp, ps_pos, ps_cpos, ps_fetched,
                   ps_attempts, ps_result, ps_err, ps_dir>>

psOthers == <<gcVars, insVars, pullVars, upVars, accVars, bwVars, pqVars,
              stVars, miscVars>>

SnapNext ==
    \/ (\E ok \in BOOLEAN : download_manifest(ok)) /\ UNCHANGED psOthers
    \/ (\E ok \in BOOLEAN : compare_manifest(ok)) /\ UNCHANGED psOthers
    \/ (\E ok \in BOOLEAN : pull_snapshot_item(ok)) /\ UNCHANGED psOthers
    \/ (\E ok \in BOOLEAN : pull_single_archive(ok)) /\ UNCHANGED psOthers
    \/ (\E ok \in BOOLEAN : pull_index_chunks(ok)) /\ UNCHANGED psOthers
    \/ (\E ok \in BOOLEAN : read_raw_chunk(ok)) /\ UNCHANGED psOthers
    \/ (\E ok \in BOOLEAN : pull_insert_chunk(ok)) /\ UNCHANGED psOthers
    \/ pull_index_chunks_return /\ UNCHANGED psOthers
    \/ (\E ok \in BOOLEAN : pull_single_archive_rename(ok))
          /\ UNCHANGED psOthers
    \/ (\E ok \in BOOLEAN : pull_snapshot_rename(ok)) /\ UNCHANGED psOthers
    \/ (\E ok, got \in BOOLEAN : pull_snapshot_return(ok, got))
          /\ UNCHANGED psOthers
    \/ (\E d \in Digests : other_insert_chunk(d)) /\ UNCHANGED psOthers

\* Any remote snapshot, pulled into any state of the snapshot directory: a
\* file is missing, holds what the manifest lists, or something else.
SnapInit ==
    /\ ps_pc = "start"
    /\ ps_remote \in [Archives -> UNION {FileData(a) : a \in Archives}]
    /\ \A a \in Archives : ps_remote[a] \in FileData(a)
    /\ ps_manifest \in {"none", "old", "new"}
    /\ ps_before = ps_manifest
    /\ ps_tmp_manifest \in BOOLEAN
    /\ ps_present \in SUBSET Archives
    /\ ps_file \in [Archives -> UNION {FileData(a) : a \in Archives}]
    /\ \A a \in Archives :
          ps_file[a] \in IF a \in ps_present THEN FileData(a) ELSE {<<>>}
    /\ ps_tmp = FALSE
    /\ ps_store \in SUBSET Digests
    /\ ps_pos = 0
    /\ ps_cpos = 0
    /\ ps_fetched = <<>>
    /\ ps_attempts = 0
    /\ ps_result = "none"
    /\ ps_err = ""
    /\ ps_dir \in SUBSET {"client.log.blob", "other"}

InitSnapshot ==
    /\ GcInit /\ InsIdle /\ PullIdle /\ UpIdle /\ AccIdle /\ WriterIdle
    /\ ParseIdle /\ SnapInit /\ ServerIdle /\ MiscIdle

SpecSnapshot == InitSnapshot /\ [][SnapNext]_vars

\* Every file the remote manifest lists is there with the data listed.
AllVerified ==
    \A a \in Archives :
       a \in ps_present /\ ps_file[a] = ps_remote[a]

\* C25: pull_snapshot renames the downloaded manifest over the local one
\* only after every file it lists has been verified against it or pulled;
\* if an archive pull fails the local manifest is left as it was before the
\* call.
C25_ManifestLast ==
    /\ [][ps_manifest' # ps_manifest =>
             /\ AllVerified
             /\ ps_pos > NArchives
             /\ ps_manifest' = "new"
             /\ UNCHANGED <<ps_present, ps_file>>]_vars
    /\ [](ps_err \in {"manifest", "verify", "archive", "chunk"} =>
             ps_manifest = ps_before)
    /\ [](ps_manifest # ps_before => AllVerified)

\* A snapshot with an old manifest has been synced, an archive of it pulled.
C25_Witness ==
    /\ ps_result = "ok"
    /\ ps_before = "old"
    /\ ps_manifest = "new"
    /\ ps_fetched # <<>>

\* The index files that appear under their final name, or with other data,
\* in a step.
NewIndexFiles ==
    {a \in ps_present' :
        /\ archive_type(a) # "Blob"
        /\ a \notin ps_present \/ ps_file'[a] # ps_file[a]}

\* C26: an index file appears under its final name in the snapshot
\* directory only after every chunk it refers to is in the target chunk
\* store; a chunk is read from the remote and inserted only if
\* cond_touch_chunk reported it missing: a chunk found present is never
\* downloaded.
C26_IndexAfterChunks ==
    /\ [][\A a \in NewIndexFiles :
             \A i \in 1..Len(ps_file'[a]) : ps_file'[a][i] \in ps_store']_vars
    /\ [][(ps_pc # "fetch" /\ ps_pc' = "fetch") =>
             /\ ps_pc = "chunks"
             /\ IndexDigests(ps_pos)[ps_cpos] \notin ps_store]_vars
    /\ [][ps_fetched' # ps_fetched =>
             /\ ps_pc = "fetch"
             /\ ps_fetched' =
                   Append(ps_fetched, IndexDigests(ps_pos)[ps_cpos])]_vars
    /\ [][(ps_pc = "chunks" /\ ps_cpos' = ps_cpos + 1) =>
             /\ IndexDigests(ps_pos)[ps_cpos] \in ps_store
             /\ ps_fetched' = ps_fetched]_vars

\* An index of a present and a missing chunk has been pulled: one chunk
\* was downloaded.
C26_Witness ==
    /\ ps_pc = "item"
    /\ ps_pos = 2
    /\ 1 \in ps_present
    /\ ps_tmp = FALSE
    /\ Len(ps_remote[1]) = 2
    /\ ps_remote[1][1] # ps_remote[1][2]
    /\ ps_file[1] = ps_remote[1]
    /\ Len(ps_fetched) = 1
    /\ ps_before # "new"

\* C29: a failure while a chunk is read from the remote or inserted is
\* retried for that chunk, the error is returned only when three attempts
\* have been made, and no chunk is tried more than three times.
C29_ThreeAttempts ==
    /\ ps_attempts <= 3
    /\ ps_err = "chunk" => ps_attempts = 3

(***************************************************************************)
(* pull_group: the order of the snapshots and the ones it skips.           *)
(***************************************************************************)

\* A snapshot older than the last successful backup of its group, as
\* pull_group found it.
Older(t) == last_sync # 0 /\ t < last_sync

\* C27: pull_group goes through the remote snapshots of a group in ascending
\* backup_time and pulls a snapshot if and only if the target has no last
\* successful backup in the group or the snapshot is not older than it;
\* older snapshots are never created or modified on the target.
C27_SkipOlder ==
    /\ [](\A i, j \in 1..Len(pl_slist) : i < j => pl_slist[i] < pl_slist[j])
    /\ [][(pl_pc = "snaps" /\ pl_slist' # pl_slist) =>
             LET g == pl_group
                 t == Head(pl_slist)
             IN /\ \A t2 \in remote_snapshots : t2 < t
                /\ \A g2 \in Groups, t2 \in BackupTimes :
                      t_snaps'[g2][t2] # t_snaps[g2][t2] =>
                         g2 = g /\ t2 = t
                /\ IF Older(t)
                   THEN /\ pl_slist' = Tail(pl_slist)
                        /\ UNCHANGED <<t_snaps, chunks, pl_downloaded,
                                       errors, pl_pc>>
                   ELSE \/ /\ pl_slist' = Tail(pl_slist)
                           /\ t_snaps'[g][t] = "synced"
                           /\ UNCHANGED <<errors, pl_pc>>
                        \/ /\ errors'
                           /\ pl_pc' = "groups"]_vars
    /\ [][\A g \in Groups, t \in BackupTimes :
             (/\ pl_pc \in {"snaps", "delsnaps"}
              /\ t_snaps'[g][t] # t_snaps[g][t]) =>
                /\ g = pl_group
                /\ ~(Older(t) /\ t \in r_snaps[g])]_vars

\* pull_group has skipped the older snapshot of a group and pulled the one
\* of the last successful backup again.
C27_Witness ==
    /\ pl_pc = "snaps"
    /\ pl_slist = <<>>
    /\ last_sync = 2
    /\ remote_snapshots = {1, 2}
    /\ t_snaps[pl_group][1] = "absent"
    /\ t_snaps[pl_group][2] = "synced"
    /\ pl_downloaded >= 1

\* C28: when an error occurs while one snapshot is synced, that snapshot is
\* given up and pull_group goes on with the next snapshot of the group: the
\* later snapshots of the group are still pulled.
C28_NextSnapshotAttempted ==
    [][(pl_pc = "snaps" /\ Len(pl_slist) >= 2 /\ pl_slist' # pl_slist) =>
          /\ pl_slist' = Tail(pl_slist)
          /\ pl_pc' = "snaps"
          /\ pl_group' = pl_group]_vars

\* C30: with delete, a failure to remove one vanished snapshot or group
\* does not end the deletion: the snapshots and groups still in the list
\* are gone through, and the failure shows in the result of pull_store.
C30_DeletionNotAborted ==
    /\ [][(pl_pc = "delsnaps" /\ Len(pl_dlist) >= 2
                /\ pl_dlist' # pl_dlist) =>
             /\ pl_dlist' = Tail(pl_dlist)
             /\ pl_pc' = "delsnaps"]_vars
    /\ [][(pl_pc = "delgroups" /\ Len(pl_list) >= 2
                /\ pl_list' # pl_list) =>
             /\ pl_list' = Tail(pl_list)
             /\ pl_pc' = "delgroups"]_vars
    /\ [][(pl_pc = "done" /\ pl_pc' = "idle" /\ errors) =>
             pl_result' = "err"]_vars


(***************************************************************************)
(* The server state (src/server/state.rs) and the shutdown request.        *)
(***************************************************************************)

\* BroadcastData::notify_listeners: store the result, send it to every
\* listener and forget the listeners.
notify_listeners(bd) == [result |-> TRUE, listeners |-> {}]

\* BroadcastData::listen for the future f: a listener, unless the result is
\* already there.
listen(bd, f) ==
    IF bd.result THEN bd ELSE [bd EXCEPT !.listeners = @ \cup {f}]

\* The test of set_worker_count and check_last_worker.
last_worker_due_always(m, count) == TRUE

last_worker_due(m, count) == m = "Shutdown" /\ count = 0

\* The notification of the last-worker listeners, when it is due.
NotifyLastWorker(m, count) ==
    IF last_worker_due(m, count)
    THEN /\ last_worker_listeners' = notify_listeners(last_worker_listeners)
         /\ st_notified' = st_notified \cup {<<m, count>>}
    ELSE UNCHANGED <<last_worker_listeners, st_notified>>

\* The futures a step resolves: the listeners of a broadcast it notifies.
Resolves(bd, bd2) == IF bd2.result THEN bd.listeners ELSE {}

\* server_shutdown up to drop(data).
server_shutdown ==
    /\ st_pc = "idle"
    /\ mode' = "Shutdown"
    /\ shutdown_listeners' = notify_listeners(shutdown_listeners)
    /\ st_resolved' = st_resolved \cup shutdown_listeners.listeners
    /\ st_pc' = "check"
    /\ UNCHANGED <<shutdown_requested, worker_count, last_worker_listeners,
                   st_futures, st_notified>>

\* server_shutdown returning without its last call.
server_shutdown_return ==
    /\ st_pc = "check"
    /\ st_pc' = "idle"
    /\ UNCHANGED <<shutdown_requested, mode, worker_count, shutdown_listeners,
                   last_worker_listeners, st_futures, st_resolved,
                   st_notified>>

\* The check_last_worker call that ends server_shutdown.
server_shutdown_check_last_worker ==
    /\ st_pc = "check"
    /\ st_pc' = "idle"
    /\ NotifyLastWorker(mode, worker_count)
    /\ st_resolved' = st_resolved
           \cup Resolves(last_worker_listeners, last_worker_listeners')
    /\ UNCHANGED <<shutdown_requested, mode, worker_count, shutdown_listeners,
                   st_futures>>

\* check_last_worker called on its own.
check_last_worker ==
    /\ NotifyLastWorker(mode, worker_count)
    /\ st_resolved' = st_resolved
           \cup Resolves(last_worker_listeners, last_worker_listeners')
    /\ UNCHANGED <<shutdown_requested, mode, worker_count, shutdown_listeners,
                   st_pc, st_futures>>

set_worker_count(count) ==
    /\ worker_count' = count
    /\ NotifyLastWorker(mode, count)
    /\ st_resolved' = st_resolved
           \cup Resolves(last_worker_listeners, last_worker_listeners')
    /\ UNCHANGED <<shutdown_requested, mode, shutdown_listeners, st_pc,
                   st_futures>>

\* shutdown_future, handing out the future f.
shutdown_future(f) ==
    /\ st_futures[f] = "none"
    /\ st_futures' = [st_futures EXCEPT ![f] = "shutdown"]
    /\ shutdown_listeners' = listen(shutdown_listeners, f)
    /\ st_resolved' = IF shutdown_listeners.result
                      THEN st_resolved \cup {f} ELSE st_resolved
    /\ UNCHANGED <<shutdown_requested, mode, worker_count,
                   last_worker_listeners, st_pc, st_notified>>

\* last_worker_future, handing out the future f.
last_worker_future(f) ==
    /\ st_futures[f] = "none"
    /\ st_futures' = [st_futures EXCEPT ![f] = "last_worker"]
    /\ last_worker_listeners' = listen(last_worker_listeners, f)
    /\ st_resolved' = IF last_worker_listeners.result
                      THEN st_resolved \cup {f} ELSE st_resolved
    /\ UNCHANGED <<shutdown_requested, mode, worker_count,
                   shutdown_listeners, st_pc, st_notified>>

stOthers == <<gcVars, insVars, pullVars, upVars, accVars, bwVars, pqVars,
              psVars, miscVars>>

ServerNext ==
    \/ server_shutdown /\ UNCHANGED stOthers
    \/ server_shutdown_check_last_worker /\ UNCHANGED stOthers
    \/ check_last_worker /\ UNCHANGED stOthers
    \/ (\E n \in 0..MaxWorkers : set_worker_count(n)) /\ UNCHANGED stOthers
    \/ (\E f \in Futures : shutdown_future(f)) /\ UNCHANGED stOthers
    \/ (\E f \in Futures : last_worker_future(f)) /\ UNCHANGED stOthers

InitServer == GcInit /\ InsIdle /\ RestIdle

SpecServer == InitServer /\ [][ServerNext]_vars

\* A server_shutdown call that has dropped the lock goes on to its
\* check_last_worker call.
SpecServerFair ==
    /\ SpecServer
    /\ WF_vars(server_shutdown_check_last_worker /\ UNCHANGED stOthers)

\* tools::request_shutdown: set the flag, then server_shutdown as a whole.
request_shutdown ==
    /\ st_pc = "idle"
    /\ shutdown_requested' = TRUE
    /\ mode' = "Shutdown"
    /\ shutdown_listeners' = notify_listeners(shutdown_listeners)
    /\ NotifyLastWorker("Shutdown", worker_count)
    /\ st_resolved' = st_resolved \cup shutdown_listeners.listeners
           \cup Resolves(last_worker_listeners, last_worker_listeners')
    /\ UNCHANGED <<worker_count, st_pc, st_futures>>

\* The datastore while the process may be asked to shut down: one backup
\* writer, the locks of the syncs, snapshots removed, and the garbage
\* collections.
ShutdownNext ==
    \/ (\E w \in Writers : create_writer(w)) /\ UNCHANGED gcOthers
    \/ (\E w \in Writers, d \in Digests : writer_insert_chunk(w, d))
          /\ UNCHANGED gcOthers
    \/ (\E w \in Writers, s \in Snaps : writer_close(w, s))
          /\ UNCHANGED gcOthers
    \/ (\E p \in Syncs : try_shared_chunk_store_lock(p)) /\ UNCHANGED gcOthers
    \/ (\E p \in Syncs : drop_shared_lock(p)) /\ UNCHANGED gcOthers
    \/ (\E s \in Snaps : remove_backup_dir(s)) /\ UNCHANGED gcOthers
    \/ (\E g \in GcCallers : garbage_collection(g)) /\ UNCHANGED gcOthers
    \/ (\E g \in GcCallers : mark_used_chunks(g)) /\ UNCHANGED gcOthers
    \/ (\E g \in GcCallers : sweep_phase(g)) /\ UNCHANGED gcOthers
    \/ (\E g \in GcCallers : sweep_fails(g)) /\ UNCHANGED gcOthers
    \/ (\E g \in GcCallers : gc_return(g)) /\ UNCHANGED gcOthers
    \/ request_shutdown /\ UNCHANGED stOthers

SpecShutdown == Init /\ [][ShutdownNext]_vars


\* A garbage collection in its mark phase with a digest or an index file
\* still to go.
MarkPending(g) == gcpc[g] = "mark" /\ (gc_cur # <<>> \/ gc_list # <<>>)

C36_StatusOnlyOnSuccess ==
    [][/\ last_gc_status' # last_gc_status
          => \E g \in GcCallers : /\ gcpc[g] = "sweep"
                                  /\ gcpc'[g] = "done"
                                  /\ last_gc_status' = g
       /\ \A g \in GcCallers :
              gcpc[g] # "failed" /\ gcpc'[g] = "failed"
              => last_gc_status' = last_gc_status]_vars

\* A garbage collection has failed in its sweep after an earlier one had
\* stored its status.
C36_Witness ==
    \E g \in GcCallers :
        gcpc[g] = "failed" /\ gcerr[g] = "sweep" /\ last_gc_status # 0


\* C39: the mode only ever changes from Normal to Shutdown, and the
\* last-worker listeners are notified only while the mode is Shutdown and
\* the worker count is 0.
C39_ShutdownIsFinal ==
    /\ [][mode' # mode => mode = "Normal" /\ mode' = "Shutdown"]_vars
    /\ [](st_notified \subseteq {<<"Shutdown", 0>>})
    /\ [][last_worker_listeners' # last_worker_listeners
            /\ last_worker_listeners'.result
          => mode' = "Shutdown" /\ worker_count' = 0]_vars

\* The last-worker listeners have been notified with a future waiting, after
\* the worker count had been above 0 in shutdown mode.
C39_Witness ==
    /\ st_notified # {}
    /\ \E f \in Futures : st_futures[f] = "last_worker" /\ f \in st_resolved
    /\ mode = "Shutdown"
    /\ worker_count > 0

\* C40: once server_shutdown has been called every future of shutdown_future
\* is resolved, and a future of last_worker_future resolves once the mode is
\* Shutdown and the worker count is 0, whichever of the two came first,
\* unless the worker count is raised again before.
C40_FuturesResolve ==
    /\ [](mode = "Shutdown"
          => \A f \in Futures : st_futures[f] = "shutdown"
                                   => f \in st_resolved)
    /\ \A f \in Futures :
          (st_futures[f] = "last_worker" /\ mode = "Shutdown"
              /\ worker_count = 0)
          ~> (f \in st_resolved \/ worker_count # 0)

\* server_shutdown found the worker count at 0 and has resolved a future of
\* last_worker_future and one of shutdown_future.
C40_Witness ==
    /\ mode = "Shutdown"
    /\ worker_count = 0
    /\ \E f \in Futures : st_futures[f] = "last_worker" /\ f \in st_resolved
    /\ \E f \in Futures : st_futures[f] = "shutdown" /\ f \in st_resolved


\* pull_snapshot while the process may be asked to shut down.
SnapShutdownNext ==
    \/ SnapNext
    \/ request_shutdown /\ UNCHANGED stOthers

SpecSnapShutdown == InitSnapshot /\ [][SnapShutdownNext]_vars

\* C32: once the shutdown has been requested, pull_index_chunks goes on to
\* no further chunk: at the next position of the index it neither touches
\* nor fetches a chunk, and pull_snapshot ends with an error.
C32_SyncStopsOnShutdown ==
    [][(/\ shutdown_requested
        /\ ps_pc = "chunks"
        /\ ps_cpos <= Len(IndexDigests(ps_pos)))
       => \/ ps_result' = "err"
          \/ ps_pc' = ps_pc /\ ps_cpos' = ps_cpos]_vars


\* C37: after pull_snapshot has returned successfully, on either way, the
\* snapshot directory holds the files of the manifest, the manifest and the
\* client log, and no tmp file.
C37_NoTmpAfterPull ==
    (ps_pc = "done" /\ ps_result \in {"ok", "unchanged"})
    => /\ ~ps_tmp_manifest
       /\ ~ps_tmp
       /\ ps_dir \subseteq {"client.log.blob"}


(***************************************************************************)
(* lookup_datastore (src/backup/datastore.rs): the cache of the DataStore  *)
(* instances, one name, while the configuration is edited.                 *)
(***************************************************************************)

\* datastore::config() and the path of the section, before the map is
\* locked.
lookup_read_config(c) ==
    /\ ld_pc[c] = "idle"
    /\ ld_pc' = [ld_pc EXCEPT ![c] = "lock"]
    /\ ld_path' = [ld_path EXCEPT ![c] = ld_config]
    /\ ld_ret' = [ld_ret EXCEPT ![c] = 0]
    /\ UNCHANGED <<ld_config, ld_map, ld_paths>>

\* DataStore::open: the instance is built from the path the configuration
\* names when open reads it.
open(paths, config) == Append(paths, config)

\* The part of lookup_datastore under the lock of DATASTORE_MAP: the cached
\* instance if its base is the path read, else a new instance, cached.
lookup_datastore(c) ==
    /\ ld_pc[c] = "lock"
    /\ ld_pc' = [ld_pc EXCEPT ![c] = "done"]
    /\ IF ld_map # 0 /\ ld_paths[ld_map] = ld_path[c]
       THEN /\ ld_ret' = [ld_ret EXCEPT ![c] = ld_map]
            /\ UNCHANGED <<ld_map, ld_paths>>
       ELSE /\ Len(ld_paths) < MaxOpens
            /\ ld_paths' = open(ld_paths, ld_config)
            /\ ld_map' = Len(ld_paths')
            /\ ld_ret' = [ld_ret EXCEPT ![c] = ld_map']
    /\ UNCHANGED <<ld_config, ld_path>>

\* The caller has its instance; it may look up again.
lookup_return(c) ==
    /\ ld_pc[c] = "done"
    /\ ld_pc' = [ld_pc EXCEPT ![c] = "idle"]
    /\ UNCHANGED <<ld_config, ld_map, ld_paths, ld_path, ld_ret>>

\* The configuration is saved with another path for the datastore.
config_change(p) ==
    /\ p # ld_config
    /\ ld_config' = p
    /\ UNCHANGED <<ld_map, ld_paths, ld_pc, ld_path, ld_ret>>

ldOthers == <<gcVars, insVars, pullVars, upVars, accVars, bwVars, pqVars,
              psVars, stVars, sfVars, tfVars>>

LookupNext ==
    \/ (\E c \in Lookups : lookup_read_config(c)) /\ UNCHANGED ldOthers
    \/ (\E c \in Lookups : lookup_datastore(c)) /\ UNCHANGED ldOthers
    \/ (\E c \in Lookups : lookup_return(c)) /\ UNCHANGED ldOthers
    \/ (\E p \in Paths : config_change(p)) /\ UNCHANGED ldOthers

\* An empty cache; the configuration names any of the paths.
InitLookup ==
    /\ GcInit /\ InsIdle /\ PullIdle /\ UpIdle /\ AccIdle /\ WriterIdle
    /\ ParseIdle /\ SnapIdle /\ ServerIdle /\ FromIdle /\ TmpIdle
    /\ ld_config \in Paths
    /\ ld_map = 0
    /\ ld_paths = <<>>
    /\ ld_pc = [c \in Lookups |-> "idle"]
    /\ ld_path = [c \in Lookups |-> 0]
    /\ ld_ret = [c \in Lookups |-> 0]

SpecLookup == InitLookup /\ [][LookupNext]_vars

\* C33: a lookup_datastore call returns the cached instance whenever the
\* path configured is the path of the cached instance, it opens and caches
\* a new one otherwise, and the instance it returns has the path the call
\* read from the configuration, however lookups and changes of the
\* configuration interleave.
C33_SharedInstance ==
    [][\A c \in Lookups :
          (ld_pc[c] = "lock" /\ ld_pc'[c] = "done")
          => /\ ld_paths'[ld_ret'[c]] = ld_path[c]
             /\ IF ld_map # 0 /\ ld_paths[ld_map] = ld_config
                THEN ld_ret'[c] = ld_map /\ ld_map' = ld_map
                ELSE ld_ret'[c] = ld_map' /\ ld_map' = Len(ld_paths) + 1]_vars


(***************************************************************************)
(* pull_snapshot_from (src/client/pull.rs) and create_backup_dir           *)
(* (src/backup/datastore.rs): concurrent and repeated calls for one        *)
(* snapshot.                                                               *)
(***************************************************************************)

\* backup_dir.relative_path() of the snapshot: group path and backup time.
relative_path == <<"host", "srv", "1970-01-01T00:00:01Z">>

\* create_backup_dir, first half: create_dir_all for the group directory.
create_dir_all(c, ok) ==
    /\ sf_pc[c] = "idle"
    /\ sf_new' = [sf_new EXCEPT ![c] = FALSE]
    /\ sf_path' = [sf_path EXCEPT ![c] = NoPath]
    /\ sf_logged' = [sf_logged EXCEPT ![c] = FALSE]
    /\ IF ok
       THEN /\ sf_group' = TRUE
            /\ sf_pc' = [sf_pc EXCEPT ![c] = "mkdir"]
            /\ sf_err' = [sf_err EXCEPT ![c] = "none"]
       ELSE /\ sf_pc' = [sf_pc EXCEPT ![c] = "done"]
            /\ sf_err' = [sf_err EXCEPT ![c] = "create"]
            /\ UNCHANGED sf_group
    /\ UNCHANGED <<sf_dir, sf_news, sf_pre>>

\* std::fs::create_dir that reports every directory as made.
create_dir_always(dir) == TRUE

\* std::fs::create_dir: Ok if it made the directory, AlreadyExists if the
\* directory was there.
create_dir(dir) == dir = "absent"

\* create_backup_dir, second half: create the last component and tell
\* whether it is new.
create_backup_dir(c, ok) ==
    /\ sf_pc[c] = "mkdir"
    /\ IF ~ok
       THEN /\ sf_pc' = [sf_pc EXCEPT ![c] = "done"]
            /\ sf_err' = [sf_err EXCEPT ![c] = "create"]
            /\ UNCHANGED <<sf_dir, sf_new, sf_path, sf_news>>
       ELSE /\ sf_pc' = [sf_pc EXCEPT ![c] = "pull"]
            /\ sf_path' = [sf_path EXCEPT ![c] = relative_path]
            /\ sf_new' = [sf_new EXCEPT ![c] = create_dir(sf_dir)]
            /\ sf_dir' = IF sf_dir = "absent" THEN "empty" ELSE sf_dir
            /\ sf_news' = IF create_dir(sf_dir) THEN sf_news + 1 ELSE sf_news
            /\ UNCHANGED sf_err
    /\ UNCHANGED <<sf_group, sf_logged, sf_pre>>

\* pull_snapshot_from removes the directory of every failed pull.
removes_on_failure_always(is_new) == TRUE

\* pull_snapshot_from removes the directory of a failed pull if it is new.
removes_on_failure(is_new) == is_new

\* pull_snapshot, as pull_snapshot_from sees it: it fills the directory, or
\* fails and leaves what it had written.
sf_pull_snapshot(c, ok) ==
    /\ sf_pc[c] = "pull"
    /\ ok => sf_dir # "absent"
    /\ IF ok
       THEN /\ sf_dir' = "synced"
            /\ sf_pc' = [sf_pc EXCEPT ![c] = "done"]
            /\ UNCHANGED sf_err
       ELSE /\ sf_dir' = IF sf_dir = "absent" THEN sf_dir ELSE "partial"
            /\ IF removes_on_failure(sf_new[c])
               THEN /\ sf_pc' = [sf_pc EXCEPT ![c] = "cleanup"]
                    /\ UNCHANGED sf_err
               ELSE /\ sf_pc' = [sf_pc EXCEPT ![c] = "done"]
                    /\ sf_err' = [sf_err EXCEPT ![c] = "pull"]
    /\ UNCHANGED <<sf_group, sf_new, sf_path, sf_logged, sf_news, sf_pre>>

\* The cleanup of pull_snapshot_from: remove_backup_dir, its error logged,
\* and the error of pull_snapshot returned.
sf_remove_backup_dir(c, ok) ==
    /\ sf_pc[c] = "cleanup"
    /\ sf_pc' = [sf_pc EXCEPT ![c] = "done"]
    /\ sf_err' = [sf_err EXCEPT ![c] = "pull"]
    /\ IF ok /\ sf_dir # "absent"
       THEN /\ sf_dir' = "absent"
            /\ sf_news' = 0
            /\ sf_pre' = FALSE
            /\ UNCHANGED sf_logged
       ELSE /\ sf_logged' = [sf_logged EXCEPT ![c] = TRUE]
            /\ UNCHANGED <<sf_dir, sf_news, sf_pre>>
    /\ UNCHANGED <<sf_group, sf_new, sf_path>>

\* The caller has the result; the next call for the snapshot may come.
pull_snapshot_from_return(c) ==
    /\ sf_pc[c] = "done"
    /\ sf_pc' = [sf_pc EXCEPT ![c] = "idle"]
    /\ UNCHANGED <<sf_group, sf_dir, sf_new, sf_path, sf_err, sf_logged,
                   sf_news, sf_pre>>

sfOthers == <<gcVars, insVars, pullVars, upVars, accVars, bwVars, pqVars,
              psVars, stVars, ldVars, tfVars>>

FromNext ==
    \/ (\E c \in Pullers, ok \in BOOLEAN : create_dir_all(c, ok))
          /\ UNCHANGED sfOthers
    \/ (\E c \in Pullers, ok \in BOOLEAN : create_backup_dir(c, ok))
          /\ UNCHANGED sfOthers
    \/ (\E c \in Pullers, ok \in BOOLEAN : sf_pull_snapshot(c, ok))
          /\ UNCHANGED sfOthers
    \/ (\E c \in Pullers, ok \in BOOLEAN : sf_remove_backup_dir(c, ok))
          /\ UNCHANGED sfOthers
    \/ (\E c \in Pullers : pull_snapshot_from_return(c)) /\ UNCHANGED sfOthers

\* The snapshot is on the target already, or it is not.
InitFrom ==
    /\ GcInit /\ InsIdle /\ PullIdle /\ UpIdle /\ AccIdle /\ WriterIdle
    /\ ParseIdle /\ SnapIdle /\ ServerIdle /\ LookupIdle /\ TmpIdle
    /\ sf_dir \in {"absent", "old"}
    /\ sf_pre = (sf_dir = "old")
    /\ sf_group = sf_pre
    /\ sf_pc = [c \in Pullers |-> "idle"]
    /\ sf_new = [c \in Pullers |-> FALSE]
    /\ sf_path = [c \in Pullers |-> NoPath]
    /\ sf_err = [c \in Pullers |-> "none"]
    /\ sf_logged = [c \in Pullers |-> FALSE]
    /\ sf_news = 0

SpecFrom == InitFrom /\ [][FromNext]_vars

\* C34: when pull_snapshot fails for a directory the call made itself, the
\* call removes the directory again (or logs that it could not) and returns
\* the error of the pull, not that of the cleanup; a directory that was
\* there before the call is left in place.
C34_FailedPullCleanup ==
    /\ [](\A c \in Pullers : sf_err[c] \in {"none", "create", "pull"})
    /\ [][\A c \in Pullers :
            /\ (sf_pc[c] = "pull" /\ sf_new[c] /\ sf_pc'[c] # "pull")
               => (sf_pc'[c] = "cleanup" \/ sf_dir' = "synced")
            /\ (sf_pc[c] = "cleanup" /\ sf_pc'[c] = "done")
               => /\ sf_err'[c] = "pull"
                  /\ sf_dir' = "absent" \/ sf_logged'[c]
            /\ (sf_pc[c] = "pull" /\ ~sf_new[c] /\ sf_pc'[c] # "pull")
               => /\ sf_pc'[c] = "done"
                  /\ sf_dir # "absent" => sf_dir' # "absent"
                  /\ sf_dir' # "synced" => sf_err'[c] = "pull"]_vars

\* A call has removed the directory it had made, and returned the error of
\* its pull.
C34_Witness ==
    \E c \in Pullers :
        /\ sf_pc[c] = "done"
        /\ sf_new[c]
        /\ sf_err[c] = "pull"
        /\ ~sf_logged[c]
        /\ sf_dir = "absent"

\* C35: of the create_backup_dir calls for one snapshot exactly one returns
\* is_new = true, the one that made the directory; every other returns
\* false with the same relative path and changes nothing. (The calls are
\* counted for the directory there is: a directory removed again can be
\* made anew.)
C35_OneIsNew ==
    /\ [](sf_news <= 1)
    /\ []((sf_dir # "absent" /\ ~sf_pre) => sf_news = 1)
    /\ [](\A c, d \in Pullers :
             (sf_path[c] # NoPath /\ sf_path[d] # NoPath)
             => sf_path[c] = sf_path[d])
    /\ [][\A c \in Pullers :
            (sf_pc[c] = "mkdir" /\ sf_pc'[c] = "pull")
            => IF sf_new'[c]
               THEN sf_dir = "absent" /\ sf_dir' = "empty"
               ELSE sf_dir # "absent" /\ sf_dir' = sf_dir]_vars

\* Two calls have returned from create_backup_dir for the snapshot, one
\* with is_new = true and one with false.
C35_Witness ==
    \E c, d \in Pullers :
        /\ sf_pc[c] = "pull" /\ sf_new[c]
        /\ sf_pc[d] = "pull" /\ ~sf_new[d]
        /\ sf_path[c] = relative_path
        /\ sf_path[d] = relative_path


(***************************************************************************)
(* The tmp file of download_manifest and pull_single_archive               *)
(* (src/client/pull.rs), byte by byte.                                     *)
(***************************************************************************)

RECURSIVE FileBytes(_)
\* The files of at least one and at most n bytes.
FileBytes(n) ==
    IF n = 1 THEN {<<b>> : b \in 1..NBytes}
    ELSE LET S == FileBytes(n - 1)
         IN S \cup {Append(x, b) : x \in {y \in S : Len(y) = n - 1},
                                   b \in 1..NBytes}

\* OpenOptions write, create, read: the file as it is, or a new empty one.
open_tmp(f) == IF f.exists THEN f ELSE [exists |-> TRUE, data |-> <<>>]

\* reader.download into the opened file: the bytes are written from the
\* start of the file, what lies behind them stays.
download(f, bytes) ==
    [f EXCEPT !.data = bytes \o SubSeq(@, Len(bytes) + 1, Len(@))]

\* The file is opened under the tmp name and the remote file downloaded
\* into it; a download that fails has written the first n bytes.
download_tmp(ok, n) ==
    /\ tf_pc = "start"
    /\ n <= Len(tf_remote)
    /\ ok => n = Len(tf_remote)
    /\ tf_tmp' = download(open_tmp(tf_tmp), SubSeq(tf_remote, 1, n))
    /\ tf_pc' = IF ok THEN "written" ELSE "failed"
    /\ UNCHANGED <<tf_remote, tf_file>>

\* std::fs::rename(&tmp_path, &path)
rename_tmp ==
    /\ tf_pc = "written"
    /\ tf_file' = tf_tmp
    /\ tf_tmp' = NoFile
    /\ tf_pc' = "done"
    /\ UNCHANGED tf_remote

\* The next sync of the snapshot: the file of the same name is pulled
\* again, with the bytes the remote holds then.
pull_again(bytes) ==
    /\ tf_pc \in {"done", "failed"}
    /\ tf_remote' = bytes
    /\ tf_pc' = "start"
    /\ UNCHANGED <<tf_tmp, tf_file>>

tfOthers == <<gcVars, insVars, pullVars, upVars, accVars, bwVars, pqVars,
              psVars, stVars, ldVars, sfVars>>

TmpNext ==
    \/ (\E ok \in BOOLEAN, n \in 0..MaxFileLen : download_tmp(ok, n))
          /\ UNCHANGED tfOthers
    \/ rename_tmp /\ UNCHANGED tfOthers
    \/ (\E bytes \in FileBytes(MaxFileLen) : pull_again(bytes))
          /\ UNCHANGED tfOthers

\* Any remote file, pulled into a directory without files of its name.
InitTmp ==
    /\ GcInit /\ InsIdle /\ PullIdle /\ UpIdle /\ AccIdle /\ WriterIdle
    /\ ParseIdle /\ SnapIdle /\ ServerIdle /\ LookupIdle /\ FromIdle
    /\ tf_remote \in FileBytes(MaxFileLen)
    /\ tf_tmp = NoFile
    /\ tf_file = NoFile
    /\ tf_pc = "start"

SpecTmp == InitTmp /\ [][TmpNext]_vars

\* C38: the file renamed into place has the bytes of the remote file, also
\* when a tmp file of the name was left by an earlier attempt.
C38_TmpIdentical ==
    /\ (tf_pc = "written" => tf_tmp.data = tf_remote)
    /\ (tf_pc = "done" => tf_file.data = tf_remote)

==============================================================================
